---- MODULE Spec2Model ----
(***************************************************************************)
(* Model of the LangGraph + MCP agent: the tool registry (MultiMCPClient   *)
(* over MCPConnection objects, src/agent.py), the workflow graph built by  *)
(* create_graph (src/agent.py) and the Telegram handlers with their        *)
(* pending-approval map (src/telegram_bot.py).                             *)
(*                                                                         *)
(* SpecRegistry drives the registry alone (connect_all, call_tool,         *)
(* disconnect_all, disconnect).  Spec drives the two front ends (the       *)
(* terminal loop of agent.main and the Telegram handlers) over a connected *)
(* registry.  SpecWorkflow runs one graph.ainvoke node by node;            *)
(* SpecWorkflowLive adds the fairness of the event loop that runs it.      *)
(***************************************************************************)
EXTENDS Integers, Sequences, FiniteSets, TLC

VARIABLES
    \* ---- MultiMCPClient / MCPConnection (src/agent.py:137-219) ----
    connections,      \* MultiMCPClient.connections: provider names, in insertion order
    tools,            \* MultiMCPClient.tools: names of the StructuredTools, in append order
    tool_to_server,   \* MultiMCPClient._tool_to_server: tool name -> provider name
    conn,             \* per provider: the MCPConnection's _client and _session handles
    catalog,          \* per provider: the capabilities its script declares (list_tools answer)
    connOutcome,      \* per provider: how its connect_all iteration ended ("todo" before)
    regPc,            \* where the registry's owner is: idle/connecting/ready/disconnecting/closed
    regIdx,           \* loop index of connect_all / disconnect_all
    regRaised,        \* the operation (if any) that let an exception escape to its caller
    attempted,        \* providers on which disconnect_all has called disconnect()
    lastCall,         \* what the most recent direct call of call_tool did (SpecRegistry)
    exits,            \* per provider: the __aexit__ calls made so far on the session
                      \* handle and on the client handle
    \* ---- front ends (src/agent.py:764-802, src/telegram_bot.py) ----
    mode,             \* "cli" (create_graph(mcp)) or "telegram" (use_cli_approval=False)
    user_messages,    \* telegram_bot.user_messages: user id -> list of messages
    pending_approvals,\* telegram_bot.pending_approvals: user id -> pending record
    cli_messages,     \* agent.main's local `messages`
    nextId,           \* number of user texts received so far (names each text)
    ev,               \* what the most recent handler / loop iteration did
    \* ---- one run of the graph built by create_graph (src/agent.py:241-680) ----
    wfNode,           \* the node to execute next ("START", a node name, "END", "RAISED")
    wfRun,            \* the graph State and what the run did so far
    wfOracle,         \* the answers the collaborators give during this run
    wfTrace,          \* the nodes executed so far, in order
    \* ---- one call of a helper function (src/agent.py:48-132, 685-759) ----
    fnCall,           \* the function called and its arguments
    fnResult,         \* <<>> while the call runs, <<value>> once it has returned
    \* ---- decision callbacks in progress (src/telegram_bot.py:222-269) ----
    decisions,        \* per callback: its user, data, position and popped record
    executed          \* the tool invocations the approve branch made, in order

regVars == <<connections, tools, tool_to_server, conn, catalog, connOutcome, regPc, regIdx,
             regRaised, attempted, lastCall, exits>>
botVars == <<mode, user_messages, pending_approvals, cli_messages, nextId, ev>>
wfVars == <<wfNode, wfRun, wfOracle, wfTrace>>
fnVars == <<fnCall, fnResult>>
cbVars == <<decisions, executed>>
vars == <<regVars, botVars, wfVars, fnVars, cbVars>>

----------------------------------------------------------------------------
(* Bounds and program constants *)

MaxCatalog == 2     \* longest capability list a provider answers with
MaxDisconnects == 2 \* exits of one handle up to which disconnect() is called directly

\* SERVERS (src/agent.py:28-32), in dict order
SERVERS == <<"calendar", "maps">>
Providers == {SERVERS[i] : i \in 1..Len(SERVERS)}

\* TOOLS_REQUIRING_APPROVAL (src/agent.py:35)
TOOLS_REQUIRING_APPROVAL == {"create_event", "delete_event", "update_event"}

\* the tools servers/gcalendar.py and servers/maps.py declare with @mcp.tool()
CalendarCatalog == <<"get_events", "create_event">>
MapsCatalog == <<"search_places", "get_directions", "get_place_details">>

\* the capabilities of the providers of SERVERS
DeclaredCatalog == [calendar |-> CalendarCatalog, maps |-> MapsCatalog]

ToolNames == {"get_events", "create_event", "get_directions"}
ArgVals == {"a1", "a2"}

Range(s) == {s[i] : i \in 1..Len(s)}

\* duplicate-free lists over S of length <= n
RECURSIVE ListsUpTo(_, _)
ListsUpTo(S, n) ==
    IF n = 0 THEN {<<>>}
    ELSE LET shorter == ListsUpTo(S, n - 1)
         IN shorter \cup {Append(l, x) : l \in {m \in shorter : Len(m) = n - 1},
                                          x \in S}

NoDup(s) == \A i, j \in 1..Len(s) : i # j => s[i] # s[j]
Catalogs == {l \in ListsUpTo(ToolNames, MaxCatalog) : NoDup(l)}

----------------------------------------------------------------------------
(* MCPConnection (src/agent.py:137-167) *)

\* __init__: both handles are None
NewConnection == [client |-> "none", session |-> "none"]

\* How one MCPConnection.connect() / list_tools() pair can end.
ConnectFailures == {"client_enter_fails", "session_enter_fails", "initialize_fails"}
IterationOutcomes == {"ok", "list_fails"} \cup ConnectFailures

\* connect(): _client is assigned, entered; _session is assigned, entered, initialized.
\* A handle is "set" once assigned, "open" once entered, "ready" once initialized.
ConnectionAfterConnect(out) ==
    CASE out = "client_enter_fails"  -> [client |-> "set",  session |-> "none"]
      [] out = "session_enter_fails" -> [client |-> "open", session |-> "set"]
      [] out = "initialize_fails"    -> [client |-> "open", session |-> "open"]
      [] OTHER                       -> [client |-> "open", session |-> "ready"]

DisconnectOutcomes == {"ok", "session_exit_raises", "client_exit_raises"}

\* disconnect(): exits the session if one was assigned, then the client if
\* one was assigned; an exception of the first __aexit__ skips the second.
\* sessionExit / clientExit: whether __aexit__ was called on the handle.
DisconnectResult(c, out) ==
    IF c.session # "none" /\ out = "session_exit_raises"
    THEN [c |-> c, raised |-> TRUE, sessionExit |-> TRUE, clientExit |-> FALSE]
    ELSE LET c1 == IF c.session # "none" THEN [c EXCEPT !.session = "closed"] ELSE c
         IN IF c1.client # "none" /\ out = "client_exit_raises"
            THEN [c |-> c1, raised |-> TRUE,
                  sessionExit |-> c.session # "none", clientExit |-> TRUE]
            ELSE [c |-> IF c1.client # "none" THEN [c1 EXCEPT !.client = "closed"]
                                               ELSE c1,
                  raised |-> FALSE,
                  sessionExit |-> c.session # "none", clientExit |-> c.client # "none"]

\* the exits record of a connection after one more disconnect() that ended as r
CountExits(e, r) ==
    [session |-> e.session + (IF r.sessionExit THEN 1 ELSE 0),
     client |-> e.client + (IF r.clientExit THEN 1 ELSE 0)]

NoExits == [session |-> 0, client |-> 0]

\* What the provider process answers to call_tool: a text, no content, or an error.
ProviderAnswers == {"text", "empty", "error"}
ProviderText(server, name, args) == <<"result", server, name, args>>
EmptyText == <<"">>

\* MCPConnection.call_tool on connection c of provider `server`
ConnectionCallTool(c, server, name, args, ans) ==
    IF c.session # "ready" \/ ans = "error"
    THEN [kind |-> "raised", value |-> <<"error", server>>]
    ELSE [kind |-> "returned",
          value |-> IF ans = "empty" THEN EmptyText
                    ELSE ProviderText(server, name, args)]

----------------------------------------------------------------------------
(* MultiMCPClient (src/agent.py:170-219) *)

NotFound(name) == <<"Tool not found", name>>

\* the loop over resp.tools: _tool_to_server[t.name] = name; tools.append(...)
RegisterTools(reg, name, cat) ==
    [reg EXCEPT
        !.tools = reg.tools \o cat,
        !.tool_to_server =
            [n \in DOMAIN reg.tool_to_server \cup Range(cat) |->
                IF n \in Range(cat) THEN name ELSE reg.tool_to_server[n]]]

\* ConnectIteration without the skip of a failed provider: its capabilities
\* are registered although its connect or its listing failed.
ConnectIterationNoSkip(reg, name, out, cat) ==
    RegisterTools([reg EXCEPT !.connections = Append(reg.connections, name)], name, cat)

\* One iteration of connect_all's loop on registry reg for provider `name`
\* whose connect/list ends as `out` and whose list_tools answers `cat`.
ConnectIteration(reg, name, out, cat) ==
    IF out \in ConnectFailures THEN reg
    ELSE LET r1 == [reg EXCEPT !.connections = Append(reg.connections, name)]
         IN IF out = "list_fails" THEN r1 ELSE RegisterTools(r1, name, cat)

Registry == [connections |-> connections, tools |-> tools,
             tool_to_server |-> tool_to_server]

\* connect_all, one provider per step (the body of the for loop, try/except included)
ConnectStep(out) ==
    /\ regPc \in {"idle", "connecting"}
    /\ regIdx <= Len(SERVERS)
    /\ LET name == SERVERS[regIdx]
           reg == ConnectIteration(Registry, name, out, catalog[name])
       IN /\ connections' = reg.connections
          /\ tools' = reg.tools
          /\ tool_to_server' = reg.tool_to_server
          /\ conn' = [conn EXCEPT ![name] = ConnectionAfterConnect(out)]
          /\ connOutcome' = [connOutcome EXCEPT ![name] = out]
    /\ regIdx' = regIdx + 1
    /\ regPc' = IF regIdx = Len(SERVERS) THEN "ready" ELSE "connecting"
    /\ UNCHANGED <<catalog, regRaised, attempted, lastCall, exits, botVars, wfVars, fnVars, cbVars>>

\* call_tool that indexes _tool_to_server instead of using .get(): an unknown
\* name raises KeyError.
CallToolResultIndexing(reg, cs, name, args, ans) ==
    IF name \notin DOMAIN reg.tool_to_server
    THEN [name |-> name, args |-> args, server |-> "none", handle |-> "none",
          kind |-> "raised", value |-> <<"KeyError", name>>]
    ELSE LET server == reg.tool_to_server[name]
             r == ConnectionCallTool(cs[server], server, name, args, ans)
         IN [name |-> name, args |-> args, server |-> server,
             handle |-> cs[server].session,
             kind |-> r.kind, value |-> r.value]

\* call_tool(name, args); ans is the provider's answer if it is reached
CallToolResult(reg, cs, name, args, ans) ==
    IF name \notin DOMAIN reg.tool_to_server
    THEN [name |-> name, args |-> args, server |-> "none", handle |-> "none",
          kind |-> "returned", value |-> NotFound(name)]
    ELSE LET server == reg.tool_to_server[name]
             r == ConnectionCallTool(cs[server], server, name, args, ans)
         IN [name |-> name, args |-> args, server |-> server,
             handle |-> cs[server].session,
             kind |-> r.kind, value |-> r.value]

NoCall == [name |-> "none", args |-> "none", server |-> "none", handle |-> "none",
           kind |-> "none", value |-> <<>>]

CallTool(name, args, ans) ==
    /\ regPc \in {"ready", "closed"}
    /\ lastCall' = CallToolResult(Registry, conn, name, args, ans)
    /\ UNCHANGED <<connections, tools, tool_to_server, conn, catalog, connOutcome,
                   regPc, regIdx, regRaised, attempted, exits, botVars, wfVars, fnVars, cbVars>>

\* disconnect_all is entered
DisconnectAllStart ==
    /\ regPc = "ready"
    /\ regPc' = IF Len(connections) = 0 THEN "closed" ELSE "disconnecting"
    /\ regIdx' = 1
    /\ UNCHANGED <<connections, tools, tool_to_server, conn, catalog, connOutcome,
                   regRaised, attempted, lastCall, exits, botVars, wfVars, fnVars, cbVars>>

\* disconnect_all, one connection per step; an exception of conn.disconnect()
\* is not caught and ends the loop
DisconnectStep(out) ==
    /\ regPc = "disconnecting"
    /\ regIdx <= Len(connections)
    /\ LET name == connections[regIdx]
           r == DisconnectResult(conn[name], out)
       IN /\ conn' = [conn EXCEPT ![name] = r.c]
          /\ exits' = [exits EXCEPT ![name] = CountExits(@, r)]
          /\ attempted' = attempted \cup {name}
          /\ regRaised' = IF r.raised THEN "disconnect_all" ELSE regRaised
          /\ regPc' = IF r.raised \/ regIdx = Len(connections)
                      THEN "closed" ELSE "disconnecting"
    /\ regIdx' = regIdx + 1
    /\ UNCHANGED <<connections, tools, tool_to_server, catalog, connOutcome,
                   lastCall, botVars, wfVars, fnVars, cbVars>>

\* MCPConnection.disconnect() called on provider p's connection object by its
\* owner, in whatever state the connection is
Disconnect(p, out) ==
    /\ exits[p].session < MaxDisconnects
    /\ exits[p].client < MaxDisconnects
    /\ LET r == DisconnectResult(conn[p], out)
       IN /\ conn' = [conn EXCEPT ![p] = r.c]
          /\ exits' = [exits EXCEPT ![p] = CountExits(@, r)]
    /\ UNCHANGED <<connections, tools, tool_to_server, catalog, connOutcome, regPc,
                   regIdx, regRaised, attempted, lastCall, botVars, wfVars, fnVars, cbVars>>

\* no handler has run yet
NoEvent ==
    [kind |-> "none", user |-> "none", data |-> "none",
     reply |-> "none", calls |-> <<>>, llm |-> 0, sensitive |-> FALSE]

\* the front ends' variables while the registry is driven alone
BotIdle ==
    /\ mode = "none"
    /\ user_messages = <<>>
    /\ pending_approvals = <<>>
    /\ cli_messages = <<>>
    /\ nextId = 0
    /\ ev = NoEvent

\* no graph run is observed
NoRun ==
    [messages |-> <<>>, intent |-> "none", events |-> <<>>, travel_info |-> <<>>,
     calls |-> <<>>, llm |-> 0, raised |-> FALSE, sensitive |-> FALSE,
     context |-> <<>>, resumed |-> FALSE]

\* no decision callback is in progress
DecisionsIdle ==
    /\ decisions = <<>>
    /\ executed = <<>>

FunctionsIdle ==
    /\ fnCall = [fn |-> "none"]
    /\ fnResult = <<>>

WorkflowIdle ==
    /\ wfNode = "none"
    /\ wfRun = NoRun
    /\ wfOracle = "none"
    /\ wfTrace = <<>>

InitRegistry ==
    /\ connections = <<>>
    /\ tools = <<>>
    /\ tool_to_server = <<>>
    /\ conn = [p \in Providers |-> NewConnection]
    /\ catalog \in [Providers -> Catalogs]
    /\ connOutcome = [p \in Providers |-> "todo"]
    /\ regPc = "idle"
    /\ regIdx = 1
    /\ regRaised = "none"
    /\ attempted = {}
    /\ lastCall = NoCall
    /\ exits = [p \in Providers |-> NoExits]
    /\ BotIdle
    /\ WorkflowIdle
    /\ FunctionsIdle
    /\ DecisionsIdle

NextRegistry ==
    \/ \E out \in IterationOutcomes : ConnectStep(out)
    \/ \E n \in ToolNames, a \in ArgVals, ans \in ProviderAnswers : CallTool(n, a, ans)
    \/ DisconnectAllStart
    \/ \E out \in DisconnectOutcomes : DisconnectStep(out)

SpecRegistry == InitRegistry /\ [][NextRegistry]_vars

----------------------------------------------------------------------------
(* The MCPConnection objects driven directly through their own methods     *)
(* (connect, call_tool, disconnect), in any order their owner may call     *)
(* them: SpecConnection.                                                   *)

\* conn = MCPConnection(name, script); await conn.connect(), ending as `out`
Connect(p, out) ==
    /\ connOutcome[p] = "todo"
    /\ conn' = [conn EXCEPT ![p] = ConnectionAfterConnect(out)]
    /\ connOutcome' = [connOutcome EXCEPT ![p] = out]
    /\ UNCHANGED <<connections, tools, tool_to_server, catalog, regPc, regIdx,
                   regRaised, attempted, lastCall, exits, botVars, wfVars, fnVars, cbVars>>

\* await conn.call_tool(name, args) on provider p's connection
ConnectionCall(p, name, args, ans) ==
    /\ LET r == ConnectionCallTool(conn[p], p, name, args, ans)
       IN lastCall' = [name |-> name, args |-> args, server |-> p,
                       handle |-> conn[p].session, kind |-> r.kind,
                       value |-> r.value]
    /\ UNCHANGED <<connections, tools, tool_to_server, conn, catalog, connOutcome,
                   regPc, regIdx, regRaised, attempted, exits, botVars, wfVars, fnVars, cbVars>>

InitConnection ==
    /\ connections = <<>>
    /\ tools = <<>>
    /\ tool_to_server = <<>>
    /\ conn = [p \in Providers |-> NewConnection]
    /\ catalog = DeclaredCatalog
    /\ connOutcome = [p \in Providers |-> "todo"]
    /\ regPc = "idle"
    /\ regIdx = 1
    /\ regRaised = "none"
    /\ attempted = {}
    /\ lastCall = NoCall
    /\ exits = [p \in Providers |-> NoExits]
    /\ BotIdle
    /\ WorkflowIdle
    /\ FunctionsIdle
    /\ DecisionsIdle

NextConnection ==
    \/ \E p \in Providers, out \in {"ok"} \cup ConnectFailures : Connect(p, out)
    \/ \E p \in Providers, n \in ToolNames, a \in ArgVals, ans \in ProviderAnswers :
          ConnectionCall(p, n, a, ans)
    \/ \E p \in Providers, out \in DisconnectOutcomes : Disconnect(p, out)

SpecConnection == InitConnection /\ [][NextConnection]_vars

----------------------------------------------------------------------------
(* Travel-time helpers (src/agent.py:685-759) *)

Min(S) == CHOOSE i \in S : \A j \in S : i <= j

MaxTokens == 5

\* an optional integer (None, or the integer)
Absent == [present |-> FALSE, value |-> 0]
Present(v) == [present |-> TRUE, value |-> v]

\* ---- parse_duration_minutes ----
\* A text is a sequence of tokens: a run of digits, or a word.  "min" and
\* "hour" are the English words beginning so ("mins", "hours"), "bun" and
\* "sigan" are the Korean words for minute and hour, "x" is any other word.
\* White space between tokens is what \s* skips.
Num(n) == [w |-> "num", n |-> n]
Word(w) == [w |-> w, n |-> 0]
DurationNumbers == {1, 2, 30, 45}
DurationWords == {"Duration:", "min", "hour", "bun", "sigan", "x"}
Tokens == {Num(n) : n \in DurationNumbers} \cup {Word(w) : w \in DurationWords}
DurationTexts == UNION {[1..n -> Tokens] : n \in 0..MaxTokens}

\* r'Duration:\s*(\d+)\s*min' matches at token i
MatchMinutes(t, i) ==
    /\ i + 2 <= Len(t)
    /\ t[i].w = "Duration:" /\ t[i+1].w = "num" /\ t[i+2].w = "min"

\* r'Duration:\s*(\d+)\s*hour.*?(\d+)?\s*min' matches at token i
MatchHours(t, i) ==
    /\ i + 2 <= Len(t)
    /\ t[i].w = "Duration:" /\ t[i+1].w = "num" /\ t[i+2].w = "hour"
    /\ \E j \in (i+3)..Len(t) : t[j].w = "min"

\* r'(\d+)\s*<bun>' matches at token i
MatchBun(t, i) ==
    /\ i + 1 <= Len(t)
    /\ t[i].w = "num" /\ t[i+1].w = "bun"

\* r'(\d+)\s*<sigan>\s*(\d+)?\s*<bun>?' matches at token i
MatchSigan(t, i) ==
    /\ i + 1 <= Len(t)
    /\ t[i].w = "num" /\ t[i+1].w = "sigan"

\* the list `patterns`, in its order
patterns == <<"minutes", "hours", "bun", "sigan">>

Matches(pattern, t, i) ==
    CASE pattern = "minutes" -> MatchMinutes(t, i)
      [] pattern = "hours" -> MatchHours(t, i)
      [] pattern = "bun" -> MatchBun(t, i)
      [] pattern = "sigan" -> MatchSigan(t, i)

\* re.search: the positions at which the pattern matches (the match is the
\* leftmost)
Search(pattern, t) == {i \in 1..Len(t) : Matches(pattern, t, i)}

\* the patterns are tried in the order of the list; the first that matches
\* anywhere in the text decides the result
parse_duration_minutes(t) ==
    IF t = <<>> THEN Absent
    ELSE IF Search(patterns[1], t) # {}
    THEN LET i == Min(Search(patterns[1], t))
         IN Present(t[i+1].n)
    ELSE IF Search(patterns[2], t) # {}
    THEN LET i == Min(Search(patterns[2], t))
             \* the lazy .*? stops at the first "min"; the optional group
             \* holds the digits directly before it, if any
             j == Min({k \in (i+3)..Len(t) : t[k].w = "min"})
         IN IF j - 1 >= i + 3 /\ t[j-1].w = "num"
            THEN Present(t[i+1].n * 60 + t[j-1].n)
            ELSE Present(t[i+1].n * 60)
    ELSE IF Search(patterns[3], t) # {}
    THEN LET i == Min(Search(patterns[3], t))
         IN Present(t[i].n)
    ELSE IF Search(patterns[4], t) # {}
    THEN LET i == Min(Search(patterns[4], t))
         IN IF i + 2 <= Len(t) /\ t[i+2].w = "num"
            THEN Present(t[i].n * 60 + t[i+2].n)
            ELSE Present(t[i].n * 60)
    ELSE Absent

\* ---- calculate_departure_time ----
\* An event time is absent/empty ("none"), a text without a colon such as
\* "All day" ("allday"), or "HH:MM" ("clock").
NoTime == [kind |-> "none", h |-> 0, m |-> 0]
AllDay == [kind |-> "allday", h |-> 0, m |-> 0]
Clock(h, m) == [kind |-> "clock", h |-> h, m |-> m]
ClockMinutes == {0, 10, 30, 59}
EventTimes == {NoTime, AllDay} \cup {Clock(h, m) : h \in 0..23, m \in ClockMinutes}
Durations == {0, 1, 30, 50, 1435, 1440, 1500}
Buffers == {0, 10}

\* the result None, or the text f"{dep_hour:02d}:{dep_minute:02d}" given by
\* the two numbers it prints
NoDeparture == [present |-> FALSE, h |-> 0, m |-> 0]
Departure(h, m) == [present |-> TRUE, h |-> h, m |-> m]

\* a calculator that never suggests a time
calculate_departure_timeNone(event_time, duration_minutes, buffer_minutes) ==
    NoDeparture

calculate_departure_time(event_time, duration_minutes, buffer_minutes) ==
    IF event_time.kind = "none" \/ duration_minutes = 0 THEN NoDeparture
    ELSE IF event_time.kind # "clock" THEN NoDeparture
    ELSE LET total_minutes == duration_minutes + buffer_minutes
             event_minutes == event_time.h * 60 + event_time.m
             d == event_minutes - total_minutes
             departure_minutes == IF d < 0 THEN d + 24 * 60 ELSE d
         IN Departure(departure_minutes \div 60, departure_minutes % 60)

----------------------------------------------------------------------------
(* Messages and the external collaborators' answers *)

MaxTexts == 2       \* user texts received in one run of a front end
MaxItems == 2       \* items of a get_events answer that get a travel lookup each

\* ALLOWED_USER_IDS (src/telegram_bot.py:21) and the users that may write
ALLOWED_USER_IDS == {"u1", "u2"}
Users == ALLOWED_USER_IDS \cup {"u3"}

HumanMessage(n) ==
    [role |-> "human", content |-> <<"text", n>>, tool_calls |-> <<>>,
     tool_call_id |-> "none"]
AIMessage(tc) ==
    [role |-> "ai", content |-> <<"answer">>, tool_calls |-> tc,
     tool_call_id |-> "none"]
ToolMessage(c, id) ==
    [role |-> "tool", content |-> c, tool_calls |-> <<>>, tool_call_id |-> id]
CancelNotice == <<"User cancelled the operation.">>

Last(s) == s[Len(s)]

\* The labels a classifier answer can contain (a text is modelled by the set
\* of labels that occur in it as substrings).
Labels == {"check_schedule", "create_event", "search_place", "get_directions"}
IntentTexts ==
    {{}, {"check_schedule"}, {"create_event"}, {"search_place"},
     {"get_directions"}, {"create_event", "search_place"}}

\* What the user types at the terminal approval prompt.
GateInputs ==
    {[choice |-> "", new |-> "", confirm |-> ""],
     [choice |-> "n", new |-> "", confirm |-> ""]}
    \cup [choice : {"e"}, new : {"", "a2"}, confirm : {"", "n"}]

\* The tool calls an assistant message can carry.
ToolCall(n, a) == [name |-> n, args |-> a, id |-> "call_1"]
FinalToolCalls ==
    {<<>>, <<ToolCall("get_events", "a1")>>,
     <<ToolCall("get_events", "a1"), ToolCall("create_event", "a1")>>}
    \cup {<<ToolCall("create_event", a)>> : a \in ArgVals}

\* An item of the get_events answer: its summary, its location (None is
\* "none"; otherwise a text, possibly empty) and its start_time.
Item(summary, location, start_time) ==
    [summary |-> summary, location |-> location, start_time |-> start_time]

\* `if location` / `e.get("location")` as a condition
HasLocation(e) == e.location \notin {"none", ""}

TwoItems == <<Item("lunch", "none", Clock(12, 0)), Item("trip", "park", AllDay)>>

TwoLocatedItems ==
    <<Item("meeting", "office", Clock(9, 0)), Item("dinner", "harbour", Clock(0, 10))>>

\* The items the get_events answer decodes to.
ItemLists ==
    {<<>>,
     <<Item("meeting", "office", Clock(9, 0))>>,
     <<Item("lunch", "", Clock(12, 0))>>,
     TwoItems,
     TwoLocatedItems}

\* The text of a get_directions answer of the maps provider: "Duration: 45
\* mins", "Duration: 2 hours", or an answer without a duration (no route).
RouteTexts ==
    {<<Word("Duration:"), Num(45), Word("min")>>,
     <<Word("Duration:"), Num(2), Word("hour")>>,
     <<Word("x")>>}

USER_CONFIG == [buffer_minutes |-> 10]

LlmFails == {"none", "classify", "branch", "final"}
ParseOutcomes == {"ok", "garbage", "non_object"}

\* The providers' answers to the travel lookups, one per item of the schedule.
Ans2s == [1..MaxItems -> {"text", "error"}]
SameAns2(y) == [i \in 1..MaxItems |-> y]

\* One turn's answers of the language model, the providers and the terminal:
\*   text     labels contained in the classifier's answer
\*   llmFail  the language-model call that raises, if any
\*   parse    whether the extraction answer is a JSON object ("ok"), not
\*            parseable ("garbage"), or JSON of another kind such as null or
\*            a list ("non_object")
\*   args     the details the extraction answer holds
\*   period   the period text the language model answers
\*   ans      the provider's answer to the branch's call
\*   ans2     the providers' answers to the travel calls, by item
\*   items    the items in the get_events answer
\*   route    the text of the maps provider's answers to the travel calls
\*   gate     the terminal input at the approval prompt
\*   final    the tool calls of the final answer
BaseOracle ==
    [text |-> {}, llmFail |-> "none", parse |-> "ok", args |-> "a1",
     period |-> "today", ans |-> "text", ans2 |-> SameAns2("text"), items |-> <<>>,
     route |-> <<Word("Duration:"), Num(45), Word("min")>>,
     gate |-> [choice |-> "", new |-> "", confirm |-> ""], final |-> <<>>]

\* The answers explored for one turn. cli: the turn runs under the terminal
\* loop (the approval prompt is read; the final answer's tool calls are not).
Oracles(cli) ==
    {[BaseOracle EXCEPT !.text = t] :
        t \in IntentTexts}
    \cup {[BaseOracle EXCEPT !.llmFail = f] : f \in {"classify", "final"}}
    \cup {[BaseOracle EXCEPT !.text = {"create_event"}, !.llmFail = "branch"]}
    \cup {[BaseOracle EXCEPT !.text = t, !.final = c] :
        t \in {{}, {"create_event"}},
        c \in IF cli THEN {} ELSE FinalToolCalls}
    \cup {[BaseOracle EXCEPT !.text = {"create_event"}, !.parse = p, !.args = a,
                             !.ans = x] :
        p \in {"ok", "garbage"}, a \in ArgVals, x \in {"text", "error"}}
    \cup {[BaseOracle EXCEPT !.text = {"create_event"}, !.gate = g] :
        g \in IF cli THEN GateInputs ELSE {}}
    \cup {[BaseOracle EXCEPT !.text = {"check_schedule"}, !.period = p,
                             !.ans2 = SameAns2(y), !.items = i] :
        p \in {"garbage", "range"}, y \in {"text", "error"},
        i \in {TwoItems}}

\* The answers explored for the graph run that follows an approved call.
ResumeOracles ==
    {[BaseOracle EXCEPT !.text = t] : t \in {{}, {"search_place"}}}
    \cup {[BaseOracle EXCEPT !.llmFail = f] : f \in {"classify", "final"}}
    \cup {[BaseOracle EXCEPT !.text = {"create_event"}, !.args = "a2", !.ans = x] :
        x \in {"text", "error"}}
    \cup {[BaseOracle EXCEPT !.final = <<ToolCall("create_event", "a2")>>]}

----------------------------------------------------------------------------
(* Human-in-the-loop prompt (src/agent.py:83-132) *)

\* get_human_approval(tool_name, args) with terminal input g
get_human_approval(tool_name, args, g) ==
    IF g.choice = "n" THEN [approved |-> FALSE, args |-> args]
    ELSE IF g.choice = "e"
    THEN LET modified_args == IF g.new # "" THEN g.new ELSE args
         IN [approved |-> g.confirm # "n", args |-> modified_args]
    ELSE [approved |-> TRUE, args |-> args]

----------------------------------------------------------------------------
(* The workflow graph built by create_graph (src/agent.py:241-680).          *)
(* A run is a record: the graph State (messages, intent, events,             *)
(* travel_info) plus what the run did: calls (the registry calls, each with  *)
(* the approval decision that preceded it), llm (language-model calls made), *)
(* raised (an exception left a node), sensitive (the run arrived at the      *)
(* call site of a tool of TOOLS_REQUIRING_APPROVAL), context (the context   *)
(* generate_response built for the language model, line by line), resumed   *)
(* (the run started from the State a checkpoint held).                       *)

NewRun(msgs) ==
    [messages |-> msgs, intent |-> "none", events |-> <<>>, travel_info |-> <<>>,
     calls |-> <<>>, llm |-> 0, raised |-> FALSE, sensitive |-> FALSE,
     context |-> <<>>, resumed |-> FALSE]

\* await llm.ainvoke(...) in a node: one more call, which raises when it is
\* the failing one
LlmCall(rs, failing) ==
    [rs EXCEPT !.llm = @ + 1, !.raised = failing]

\* await mcp.call_tool(name, args) inside a node, reached after decision `gate`
WorkflowCall(rs, name, args, gate, ans) ==
    LET r == CallToolResult(Registry, conn, name, args, ans)
    IN [rs EXCEPT !.calls = Append(@, [name |-> name, args |-> args, gate |-> gate,
                                       kind |-> r.kind, value |-> r.value])]

\* an if/elif chain that tests create_event after the two map labels
IntentOfCreateLast(text) ==
    IF "check_schedule" \in text THEN "check_schedule"
    ELSE IF "search_place" \in text THEN "search_place"
    ELSE IF "get_directions" \in text THEN "get_directions"
    ELSE IF "create_event" \in text THEN "create_event"
    ELSE "general"

\* the if/elif chain of classify_intent over the answer's text
IntentOf(text) ==
    IF "check_schedule" \in text THEN "check_schedule"
    ELSE IF "create_event" \in text THEN "create_event"
    ELSE IF "search_place" \in text THEN "search_place"
    ELSE IF "get_directions" \in text THEN "get_directions"
    ELSE "general"

\* a classify_intent that returns the intent only
classify_intentNoReset(rs, o) ==
    LET r1 == LlmCall(rs, o.llmFail = "classify")
    IN IF r1.raised THEN r1
       ELSE [r1 EXCEPT !.intent = IntentOf(o.text)]

classify_intent(rs, o) ==
    LET r1 == LlmCall(rs, o.llmFail = "classify")
    IN IF r1.raised THEN r1
       ELSE [r1 EXCEPT !.intent = IntentOf(o.text), !.events = <<>>,
                       !.travel_info = <<>>]

\* The period texts the language model may answer: a shortcut; "range", which
\* stands for a text of the form "YYYY-MM-DD to YYYY-MM-DD"; "monday to
\* friday", which contains " to " without either side being a date; and
\* "garbage", any other text.
PeriodShortcuts == {"today", "tomorrow", "week", "next_week"}

\* " to " in period_text
ContainsTo(p) == p \in {"range", "monday to friday"}

\* the arguments fetch_schedule passes to get_events for period text p: the
\* two sides of the text as start_date and end_date when it contains " to "
\* (written as the text itself), otherwise the period shortcut
PeriodArgs(p) ==
    IF ContainsTo(p) THEN p
    ELSE IF p \in PeriodShortcuts THEN p
    ELSE "today"

\* fetch_schedule without its try/except: an exception of get_events leaves
\* the node
fetch_scheduleUncaught(rs, o) ==
    LET r1 == LlmCall(rs, o.llmFail = "branch")
        r2 == WorkflowCall(r1, "get_events", PeriodArgs(o.period), "none", o.ans)
        c == Last(r2.calls)
        parsed == c.kind = "returned" /\ c.value[1] = "result"
    IN IF r1.raised THEN r1
       ELSE IF c.kind = "raised" THEN [r2 EXCEPT !.raised = TRUE]
       ELSE [r2 EXCEPT !.events = IF parsed THEN o.items ELSE <<>>]

fetch_schedule(rs, o) ==
    LET r1 == LlmCall(rs, o.llmFail = "branch")
        r2 == WorkflowCall(r1, "get_events", PeriodArgs(o.period), "none", o.ans)
        c == Last(r2.calls)
        parsed == c.kind = "returned" /\ c.value[1] = "result"
    IN IF r1.raised THEN r1
       ELSE [r2 EXCEPT !.events = IF parsed THEN o.items ELSE <<>>]

\* directions_result: the text mcp.call_tool returned in call c
DirectionsText(c, o) ==
    IF c.value[1] = "result" THEN o.route
    ELSE IF c.value = EmptyText THEN <<>>
    ELSE <<Word("x")>>

\* the entries enrich_with_travel appends for item i
Travel(i, event, duration_minutes, departure_time) ==
    [item |-> i, event_summary |-> event.summary, destination |-> event.location,
     error |-> FALSE, duration_minutes |-> duration_minutes,
     suggested_departure |-> departure_time]
TravelError(i, event) ==
    [item |-> i, event_summary |-> event.summary, destination |-> event.location,
     error |-> TRUE, duration_minutes |-> Absent,
     suggested_departure |-> NoDeparture]

\* a loop whose try encloses the whole for statement: the first failing
\* lookup appends its error entry and ends the loop
RECURSIVE EnrichFromStopOnError(_, _, _)
EnrichFromStopOnError(rs, i, o) ==
    IF i > Len(rs.events) THEN rs
    ELSE IF ~HasLocation(rs.events[i]) THEN EnrichFromStopOnError(rs, i + 1, o)
    ELSE LET event == rs.events[i]
             r1 == WorkflowCall(rs, "get_directions", "route", "none", o.ans2[i])
             c == Last(r1.calls)
         IN IF c.kind = "raised"
            THEN [r1 EXCEPT !.travel_info = Append(@, TravelError(i, event))]
            ELSE EnrichFromStopOnError(
                     [r1 EXCEPT !.travel_info =
                         Append(@, Travel(i, event, Absent, NoDeparture))],
                     i + 1, o)

\* the loop of enrich_with_travel over events[i..]
RECURSIVE EnrichFrom(_, _, _)
EnrichFrom(rs, i, o) ==
    IF i > Len(rs.events) THEN rs
    ELSE IF ~HasLocation(rs.events[i]) THEN EnrichFrom(rs, i + 1, o)
    ELSE LET event == rs.events[i]
             r1 == WorkflowCall(rs, "get_directions", "route", "none", o.ans2[i])
             c == Last(r1.calls)
             duration_minutes == parse_duration_minutes(DirectionsText(c, o))
             event_time == event.start_time
             departure_time ==
                 IF /\ event_time.kind # "none"
                    /\ duration_minutes.present /\ duration_minutes.value # 0
                    /\ event_time # AllDay
                 THEN calculate_departure_time(event_time, duration_minutes.value,
                                               USER_CONFIG.buffer_minutes)
                 ELSE NoDeparture
             entry == IF c.kind = "raised"
                      THEN TravelError(i, event)
                      ELSE Travel(i, event, duration_minutes, departure_time)
         IN EnrichFrom([r1 EXCEPT !.travel_info = Append(@, entry)], i + 1, o)

enrich_with_travel(rs, o) ==
    EnrichFrom([rs EXCEPT !.travel_info = <<>>], 1, o)

EventInfo(d) == [details |-> d, error |-> "none", success |-> "unset", result |-> <<>>]
ErrorEvent(e) == [details |-> "none", error |-> e, success |-> "unset", result |-> <<>>]

\* what json.loads returns for an answer that is JSON but not an object
NonObject == [details |-> "non_object", error |-> "none", success |-> "unset",
              result |-> <<>>]

extract_event_info(rs, o) ==
    LET r1 == LlmCall(rs, o.llmFail = "branch")
    IN IF r1.raised THEN r1
       ELSE [r1 EXCEPT !.events =
                <<IF o.parse = "ok" THEN EventInfo(o.args)
                  ELSE IF o.parse = "non_object" THEN NonObject
                  ELSE ErrorEvent("Could not parse event details")>>]

\* an execute_create_event that does not look at the record's error field
execute_create_eventNoErrorCheck(rs, o, cli) ==
    LET event_info == rs.events[1]
        tool_args == event_info.details
        g == get_human_approval("create_event", tool_args, o.gate)
        args == IF cli THEN g.args ELSE tool_args
        r1 == WorkflowCall([rs EXCEPT !.sensitive = TRUE],
                           "create_event", args, "approved", o.ans)
        c == Last(r1.calls)
    IN IF cli /\ ~g.approved
       THEN [rs EXCEPT !.sensitive = TRUE,
                       !.events = <<ErrorEvent("User cancelled event creation")>>]
       ELSE [r1 EXCEPT !.events =
                <<[event_info EXCEPT !.result = c.value, !.success = "true"]>>]

\* execute_create_event; cli is create_graph's use_cli_approval
execute_create_event(rs, o, cli) ==
    IF rs.events = <<>>
    THEN [rs EXCEPT !.events = <<ErrorEvent("No event info to create")>>]
    ELSE LET event_info == rs.events[1]
             tool_args == event_info.details
             g == get_human_approval("create_event", tool_args, o.gate)
             args == IF cli THEN g.args ELSE tool_args
             gate == IF ~cli THEN "none"
                     ELSE IF g.args # tool_args THEN "modified" ELSE "approved"
             r1 == WorkflowCall([rs EXCEPT !.sensitive = TRUE],
                                "create_event", args, gate, o.ans)
             c == Last(r1.calls)
         IN IF event_info = NonObject
            THEN \* event_info.get("error") on a value without .get
                 [rs EXCEPT !.raised = TRUE]
            ELSE IF event_info.error # "none" THEN rs
            ELSE IF cli /\ ~g.approved
            THEN [rs EXCEPT !.sensitive = TRUE,
                            !.events = <<ErrorEvent("User cancelled event creation")>>]
            ELSE IF c.kind = "raised"
            THEN [r1 EXCEPT !.events =
                     <<[event_info EXCEPT !.error = "exception", !.success = "false"]>>]
            ELSE [r1 EXCEPT !.events =
                     <<[event_info EXCEPT !.result = c.value, !.success = "true"]>>]

execute_search_place(rs, o) ==
    LET r1 == LlmCall(rs, o.llmFail = "branch")
        query == IF o.parse = "ok" THEN "query" ELSE "user_message"
        r2 == WorkflowCall(r1, "search_places", query, "none", o.ans)
        c == Last(r2.calls)
    IN IF r1.raised THEN r1
       ELSE IF o.parse = "non_object"
       THEN \* search_info.get(...) raises inside the try, and the except
            \* clause's search_info["error"] = ... raises in turn
            [r1 EXCEPT !.raised = TRUE]
       ELSE [r2 EXCEPT !.events =
                <<IF c.kind = "raised"
                  THEN [query |-> query, error |-> "exception", result |-> <<>>]
                  ELSE [query |-> query, error |-> "none", result |-> c.value]>>]

execute_directions(rs, o) ==
    LET r1 == LlmCall(rs, o.llmFail = "branch")
        route == IF o.parse = "ok" THEN "route" ELSE "user_message"
        r2 == WorkflowCall(r1, "get_directions", route, "none", o.ans)
        c == Last(r2.calls)
    IN IF r1.raised THEN r1
       ELSE IF o.parse = "non_object"
       THEN [r1 EXCEPT !.raised = TRUE]
       ELSE [r2 EXCEPT !.travel_info =
                <<IF c.kind = "raised"
                  THEN [route |-> route, error |-> "exception", result |-> <<>>]
                  ELSE [route |-> route, error |-> "none", result |-> c.value]>>]

\* one line of the context: what it reports, the text it quotes and the
\* departure time it names
Line(kind, text, departure) == [kind |-> kind, text |-> text, departure |-> departure]

\* a tool result or error text that is not empty
Truthy(text) == text # <<>> /\ text # EmptyText

\* context_parts of generate_response (without the section headers)
ContextOf(rs) ==
    CASE rs.intent = "check_schedule" ->
            (IF rs.events = <<>>
             THEN <<Line("no_events", <<>>, NoDeparture)>>
             ELSE [i \in 1..Len(rs.events) |->
                     Line("event", <<rs.events[i].summary>>, NoDeparture)])
            \o [i \in 1..Len(rs.travel_info) |->
                  IF rs.travel_info[i].error
                  THEN Line("travel_error", <<rs.travel_info[i].destination>>, NoDeparture)
                  ELSE Line("travel", <<rs.travel_info[i].destination>>,
                            rs.travel_info[i].suggested_departure)]
      [] rs.intent = "create_event" ->
            IF rs.events # <<>> /\ rs.events[1].success = "true"
            THEN <<Line("created", <<rs.events[1].details>>, NoDeparture)>>
            ELSE IF rs.events # <<>> /\ rs.events[1].error # "none"
            THEN <<Line("create_failed", <<rs.events[1].error>>, NoDeparture)>>
            ELSE <<Line("status_unknown", <<>>, NoDeparture)>>
      [] rs.intent = "search_place" ->
            IF rs.events # <<>> /\ Truthy(rs.events[1].result)
            THEN <<Line("result", rs.events[1].result, NoDeparture)>>
            ELSE IF rs.events # <<>> /\ rs.events[1].error # "none"
            THEN <<Line("search_failed", <<rs.events[1].error>>, NoDeparture)>>
            ELSE <<>>
      [] rs.intent = "get_directions" ->
            IF rs.travel_info # <<>> /\ Truthy(rs.travel_info[1].result)
            THEN <<Line("result", rs.travel_info[1].result, NoDeparture)>>
            ELSE IF rs.travel_info # <<>> /\ rs.travel_info[1].error # "none"
            THEN <<Line("directions_failed", <<rs.travel_info[1].error>>, NoDeparture)>>
            ELSE <<>>
      [] OTHER -> <<Line("general", <<>>, NoDeparture)>>

\* a generate_response that returns its answer as the whole conversation
generate_responseAnswerOnly(rs, o) ==
    LET r1 == LlmCall(rs, o.llmFail = "final")
    IN IF r1.raised THEN r1
       ELSE [r1 EXCEPT !.messages = <<AIMessage(o.final)>>,
                       !.context = ContextOf(rs)]

\* generate_response: one language-model call over the context and the
\* messages; its answer is appended (the add_messages reducer)
generate_response(rs, o) ==
    LET r1 == LlmCall(rs, o.llmFail = "final")
    IN IF r1.raised THEN r1
       ELSE [r1 EXCEPT !.messages = Append(@, AIMessage(o.final)),
                       !.context = ContextOf(rs)]

\* a routing table whose default is the schedule branch
route_by_intentDefaultSchedule(rs) ==
    CASE rs.intent = "check_schedule" -> "fetch_schedule"
      [] rs.intent = "create_event"   -> "extract_event_info"
      [] rs.intent = "search_place"   -> "execute_search_place"
      [] rs.intent = "get_directions" -> "execute_directions"
      [] OTHER                        -> "fetch_schedule"

\* a routing table without the create_event entry
route_by_intentNoCreate(rs) ==
    CASE rs.intent = "check_schedule" -> "fetch_schedule"
      [] rs.intent = "search_place"   -> "execute_search_place"
      [] rs.intent = "get_directions" -> "execute_directions"
      [] OTHER                        -> "generate_response"

route_by_intent(rs) ==
    CASE rs.intent = "check_schedule" -> "fetch_schedule"
      [] rs.intent = "create_event"   -> "extract_event_info"
      [] rs.intent = "search_place"   -> "execute_search_place"
      [] rs.intent = "get_directions" -> "execute_directions"
      [] OTHER                        -> "generate_response"

\* a check_locations that sends a schedule with locations into the search
\* branch
check_locationsToSearch(rs) ==
    IF \E i \in 1..Len(rs.events) : HasLocation(rs.events[i])
    THEN "execute_search_place" ELSE "generate_response"

\* a check_locations that asks whether there are items at all
check_locationsAnyItem(rs) ==
    IF rs.events # <<>> THEN "enrich_with_travel" ELSE "generate_response"

check_locations(rs) ==
    IF \E i \in 1..Len(rs.events) : HasLocation(rs.events[i])
    THEN "enrich_with_travel" ELSE "generate_response"

\* the nodes between classify_intent and generate_response, along the edges
Branch(rs, o, cli) ==
    LET entry == route_by_intent(rs)
    IN CASE entry = "fetch_schedule" ->
               LET r1 == fetch_schedule(rs, o)
               IN IF r1.raised \/ check_locations(r1) = "generate_response"
                  THEN r1 ELSE enrich_with_travel(r1, o)
         [] entry = "extract_event_info" ->
               LET r1 == extract_event_info(rs, o)
               IN IF r1.raised THEN r1 ELSE execute_create_event(r1, o, cli)
         [] entry = "execute_search_place" -> execute_search_place(rs, o)
         [] entry = "execute_directions" -> execute_directions(rs, o)
         [] OTHER -> rs

\* graph.ainvoke({"messages": msgs}): START -> classify_intent -> branch ->
\* generate_response -> END; an exception of a node leaves the run
RunGraph(msgs, o, cli) ==
    LET r1 == classify_intent(NewRun(msgs), o)
        r2 == IF r1.raised THEN r1 ELSE Branch(r1, o, cli)
    IN IF r2.raised THEN r2 ELSE generate_response(r2, o)

----------------------------------------------------------------------------
(* Front ends: the Telegram handlers (src/telegram_bot.py) and the terminal *)
(* loop (src/agent.py:764-802)                                              *)

Put(f, k, v) == [x \in DOMAIN f \cup {k} |-> IF x = k THEN v ELSE f[x]]

\* a pop that drops every entry of the map, not only the one under key k
RemoveAll(f, k) == [x \in {} |-> f[x]]

Remove(f, k) == [x \in DOMAIN f \ {k} |-> f[x]]

\* the body of is_authorized for a given value of the module-level list
is_authorized_in(allowed, u) ==
    IF allowed = {} THEN FALSE ELSE u \in allowed

\* an authorization test that lets everyone in
is_authorizedAnyone(u) == TRUE

\* is_authorized(user_id)
is_authorized(u) == is_authorized_in(ALLOWED_USER_IDS, u)

\* the record of what a handler did: its kind, the user, the callback data,
\* the reply sent, the registry calls and language-model calls it made
Event(kind, u, data, reply, calls, llm, sensitive) ==
    [kind |-> kind, user |-> u, data |-> data,
     reply |-> reply, calls |-> calls, llm |-> llm, sensitive |-> sensitive]

\* indices of the tool calls of message m whose name requires approval
SensitiveCalls(m) ==
    {i \in 1..Len(m.tool_calls) : m.tool_calls[i].name \in TOOLS_REQUIRING_APPROVAL}


\* the pending-approval record handle_message stores for tool call tc
PendingFor(tc, result_messages) ==
    [tool_name |-> tc.name, tool_args |-> tc.args, tool_call_id |-> tc.id,
     full_result |-> result_messages]

\* handle_message(update) of user u
HandleMessage(u) ==
    /\ mode = "telegram"
    /\ nextId < MaxTexts
    /\ IF ~is_authorized(u)
       THEN /\ ev' = Event("message", u, "none", "denied", <<>>, 0, FALSE)
            /\ UNCHANGED <<user_messages, pending_approvals, nextId>>
       ELSE \E o \in Oracles(FALSE) :
            \E r \in {RunGraph(Append(IF u \in DOMAIN user_messages
                                       THEN user_messages[u] ELSE <<>>,
                                       HumanMessage(nextId + 1)), o, FALSE)} :
            LET msgs0 == IF u \in DOMAIN user_messages THEN user_messages[u] ELSE <<>>
                msgs1 == Append(msgs0, HumanMessage(nextId + 1))
                last_message == Last(r.messages)
                sens == SensitiveCalls(last_message)
            IN /\ nextId' = nextId + 1
               /\ IF r.raised
                  THEN /\ user_messages' = Put(user_messages, u, msgs1)
                       /\ UNCHANGED pending_approvals
                       /\ ev' = Event("message", u, "none", "error", r.calls, r.llm,
                                      r.sensitive)
                  ELSE IF sens # {}
                  THEN /\ user_messages' = Put(user_messages, u, msgs1)
                       /\ pending_approvals' =
                             Put(pending_approvals, u,
                                 PendingFor(last_message.tool_calls[Min(sens)],
                                            r.messages))
                       /\ ev' = Event("message", u, "none", "approval_request",
                                      r.calls, r.llm, TRUE)
                  ELSE /\ user_messages' = Put(user_messages, u, r.messages)
                       /\ UNCHANGED pending_approvals
                       /\ ev' = Event("message", u, "none", "answer", r.calls, r.llm,
                                      r.sensitive)
    /\ UNCHANGED <<regVars, wfVars, fnVars, cbVars, mode, cli_messages>>

\* clear_command(update) of user u
ClearCommand(u) ==
    /\ mode = "telegram"
    /\ IF ~is_authorized(u)
       THEN /\ ev' = Event("clear", u, "none", "denied", <<>>, 0, FALSE)
            /\ UNCHANGED user_messages
       ELSE /\ user_messages' = Put(user_messages, u, <<>>)
            /\ ev' = Event("clear", u, "none", "cleared", <<>>, 0, FALSE)
    /\ UNCHANGED <<regVars, wfVars, fnVars, cbVars, mode, pending_approvals, cli_messages, nextId>>

\* a cancel branch that restores the stored conversation without the notice
CancelledMessagesNoNotice(p) == p.full_result

\* the messages the cancel branch leaves for pending record p
CancelledMessages(p) ==
    Append(p.full_result, ToolMessage(CancelNotice, p.tool_call_id))

\* the call of the approved tool, as an entry of the handler's calls
ApprovedCall(c) ==
    [name |-> c.name, args |-> c.args, gate |-> "approved", kind |-> c.kind,
     value |-> c.value]

\* the approve branch for pending record p of user u
ApproveBranch(u, data, p) ==
    \E ans \in ProviderAnswers :
       LET c == CallToolResult(Registry, conn, p.tool_name, p.tool_args, ans)
           msgs == Append(p.full_result, ToolMessage(c.value, p.tool_call_id))
       IN IF c.kind = "raised"
          THEN /\ UNCHANGED user_messages
               /\ ev' = Event("approval", u, data, "error", <<ApprovedCall(c)>>, 0, TRUE)
          ELSE \E o \in ResumeOracles :
               \E r \in {RunGraph(msgs, o, FALSE)} :
                  /\ user_messages' =
                        Put(user_messages, u, IF r.raised THEN msgs ELSE r.messages)
                  /\ ev' = Event("approval", u, data,
                                 IF r.raised THEN "error" ELSE "completed",
                                 <<ApprovedCall(c)>> \o r.calls, r.llm, TRUE)

\* handle_approval_callback(update) of user u with callback data `data`
HandleApprovalCallback(u, data) ==
    /\ mode = "telegram"
    /\ IF ~is_authorized(u)
       THEN /\ ev' = Event("approval", u, data, "denied", <<>>, 0, FALSE)
            /\ UNCHANGED <<user_messages, pending_approvals>>
       ELSE IF u \notin DOMAIN pending_approvals
       THEN /\ ev' = Event("approval", u, data, "expired", <<>>, 0, FALSE)
            /\ UNCHANGED <<user_messages, pending_approvals>>
       ELSE LET pending == pending_approvals[u]
            IN /\ pending_approvals' = Remove(pending_approvals, u)
               /\ IF data = "approve"
                  THEN ApproveBranch(u, data, pending)
                  ELSE /\ user_messages' =
                             Put(user_messages, u, CancelledMessages(pending))
                       /\ ev' = Event("approval", u, data, "cancelled", <<>>, 0, FALSE)
    /\ UNCHANGED <<regVars, wfVars, fnVars, cbVars, mode, cli_messages, nextId>>

\* one iteration of main()'s loop on a non-empty input line; an exception of
\* graph.ainvoke leaves the loop and the finally clause enters disconnect_all
CliTurn ==
    /\ mode = "cli"
    /\ regPc = "ready"
    /\ nextId < MaxTexts
    /\ \E o \in Oracles(TRUE) :
       \E r \in {RunGraph(Append(cli_messages, HumanMessage(nextId + 1)), o, TRUE)} :
       LET msgs1 == Append(cli_messages, HumanMessage(nextId + 1))
       IN /\ cli_messages' = IF r.raised THEN msgs1 ELSE r.messages
          /\ ev' = Event("cli_turn", "main-session", "none",
                         IF r.raised THEN "crash" ELSE "answer",
                         r.calls, r.llm, r.sensitive)
          /\ regPc' = IF ~r.raised THEN "ready"
                      ELSE IF Len(connections) = 0 THEN "closed"
                      ELSE "disconnecting"
          /\ regIdx' = IF r.raised THEN 1 ELSE regIdx
    /\ nextId' = nextId + 1
    /\ UNCHANGED <<connections, tools, tool_to_server, conn, catalog, connOutcome,
                   regRaised, attempted, lastCall, exits, mode, user_messages,
                   pending_approvals, wfVars, fnVars, cbVars>>

\* the user types quit: the loop ends and the finally clause enters disconnect_all
CliQuit ==
    /\ mode = "cli"
    /\ regPc = "ready"
    /\ regPc' = IF Len(connections) = 0 THEN "closed" ELSE "disconnecting"
    /\ regIdx' = 1
    /\ ev' = Event("quit", "main-session", "none", "bye", <<>>, 0, FALSE)
    /\ UNCHANGED <<connections, tools, tool_to_server, conn, catalog, connOutcome,
                   regRaised, attempted, lastCall, exits, mode, user_messages,
                   pending_approvals, cli_messages, nextId, wfVars, fnVars, cbVars>>

\* connect_all(SERVERS) run to its end from an empty registry
RECURSIVE ConnectAllFrom(_, _, _)
ConnectAllFrom(reg, i, outs) ==
    IF i > Len(SERVERS) THEN reg
    ELSE ConnectAllFrom(ConnectIteration(reg, SERVERS[i], outs[SERVERS[i]],
                                         DeclaredCatalog[SERVERS[i]]),
                        i + 1, outs)

EmptyRegistry == [connections |-> <<>>, tools |-> <<>>, tool_to_server |-> <<>>]

\* The state after init_agent() / the first lines of main(): the registry is
\* connected (some providers may have failed) and holds at least one tool.
RegistryConnected ==
    /\ \E outs \in [Providers -> {"ok", "initialize_fails"}] :
          LET reg == ConnectAllFrom(EmptyRegistry, 1, outs)
          IN /\ reg.tools # <<>>
             /\ connections = reg.connections
             /\ tools = reg.tools
             /\ tool_to_server = reg.tool_to_server
             /\ conn = [p \in Providers |-> ConnectionAfterConnect(outs[p])]
             /\ connOutcome = outs
    /\ catalog = DeclaredCatalog
    /\ regPc = "ready"
    /\ regIdx = Len(SERVERS) + 1
    /\ regRaised = "none"
    /\ attempted = {}
    /\ lastCall = NoCall
    /\ exits = [p \in Providers |-> NoExits]

Init ==
    /\ mode \in {"cli", "telegram"}
    /\ RegistryConnected
    /\ WorkflowIdle
    /\ FunctionsIdle
    /\ DecisionsIdle
    /\ user_messages = <<>>
    /\ pending_approvals = <<>>
    /\ cli_messages = <<>>
    /\ nextId = 0
    /\ ev = NoEvent

Next ==
    \/ \E u \in Users : HandleMessage(u)
    \/ \E u \in Users : ClearCommand(u)
    \/ \E u \in Users, data \in {"approve", "cancel"} : HandleApprovalCallback(u, data)
    \/ CliTurn
    \/ CliQuit
    \/ \E out \in DisconnectOutcomes : DisconnectStep(out)

Spec == Init /\ [][Next]_vars

----------------------------------------------------------------------------
(* One graph.ainvoke of the graph built by create_graph, node by node      *)
(* along its edges (src/agent.py:649-680): SpecWorkflow.                   *)

\* The conversations a run is started on: a first user turn, a later user
\* turn, and the conversation the approve branch resumes on.
WorkflowInputs ==
    {<<HumanMessage(1)>>,
     <<HumanMessage(1), AIMessage(<<>>), HumanMessage(2)>>,
     <<HumanMessage(1), AIMessage(<<ToolCall("create_event", "a1")>>),
       ToolMessage(ProviderText("calendar", "create_event", "a1"), "call_1")>>}

\* The answers explored for one run: every classifier text, and per branch
\* every combination of the answers that branch reads.
WorkflowOracles(cli) ==
    {[BaseOracle EXCEPT !.text = t, !.llmFail = f] :
        t \in SUBSET Labels, f \in {"none", "classify", "final"}}
    \cup {[BaseOracle EXCEPT !.text = {"check_schedule"}, !.llmFail = f, !.period = p,
                             !.ans = x, !.items = i, !.ans2 = y, !.route = rt] :
        f \in {"none", "branch"},
        p \in {"today", "garbage", "range", "monday to friday"},
        x \in ProviderAnswers, i \in ItemLists, y \in Ans2s, rt \in RouteTexts}
    \cup {[BaseOracle EXCEPT !.text = {"create_event"}, !.llmFail = f, !.parse = p,
                             !.args = a, !.ans = x, !.gate = g] :
        f \in {"none", "branch"}, p \in ParseOutcomes, a \in ArgVals,
        x \in ProviderAnswers,
        g \in IF cli THEN GateInputs ELSE {BaseOracle.gate}}
    \cup {[BaseOracle EXCEPT !.text = t, !.llmFail = f, !.parse = p, !.ans = x] :
        t \in {{"search_place"}, {"get_directions"}}, f \in {"none", "branch"},
        p \in ParseOutcomes, x \in ProviderAnswers}

\* The State a run starts from. Under the terminal loop the graph is compiled
\* with a MemorySaver and every turn uses the thread "main-session", so a
\* later turn starts from the intent, events and travel_info the turn before
\* left; the Telegram bot starts every run from the input alone.
OldItem == Item("old meeting", "old office", Clock(8, 0))
Checkpoints(cli) ==
    {[intent |-> "none", events |-> <<>>, travel_info |-> <<>>]}
    \cup IF cli
         THEN {[intent |-> "check_schedule", events |-> <<OldItem>>,
                travel_info |-> <<Travel(1, OldItem, Present(30), Departure(7, 20))>>]}
         ELSE {}

StartFrom(msgs, cp) ==
    [NewRun(msgs) EXCEPT !.intent = cp.intent, !.events = cp.events,
                         !.travel_info = cp.travel_info,
                         !.resumed = cp.intent # "none"]

\* create_graph(mcp, use_cli_approval): the terminal loop passes the default
\* True, the Telegram bot passes False
use_cli_approval == mode = "cli"

\* node `node` has run and left the run as r; `next` is the node its edge
\* leads to (an exception of the node ends the run instead)
Goto(node, r, next) ==
    /\ wfRun' = r
    /\ wfTrace' = Append(wfTrace, node)
    /\ wfNode' = IF r.raised THEN "RAISED" ELSE next
    /\ UNCHANGED <<regVars, botVars, wfOracle, fnVars, cbVars>>

ClassifyIntentNode ==
    /\ wfNode = "classify_intent"
    /\ \E r \in {classify_intent(wfRun, wfOracle)} :
          Goto("classify_intent", r, route_by_intent(r))

FetchScheduleNode ==
    /\ wfNode = "fetch_schedule"
    /\ \E r \in {fetch_schedule(wfRun, wfOracle)} :
          Goto("fetch_schedule", r, check_locations(r))

EnrichWithTravelNode ==
    /\ wfNode = "enrich_with_travel"
    /\ Goto("enrich_with_travel", enrich_with_travel(wfRun, wfOracle),
            "generate_response")

ExtractEventInfoNode ==
    /\ wfNode = "extract_event_info"
    /\ Goto("extract_event_info", extract_event_info(wfRun, wfOracle),
            "execute_create_event")

ExecuteCreateEventNode ==
    /\ wfNode = "execute_create_event"
    /\ Goto("execute_create_event",
            execute_create_event(wfRun, wfOracle, use_cli_approval),
            "generate_response")

ExecuteSearchPlaceNode ==
    /\ wfNode = "execute_search_place"
    /\ Goto("execute_search_place", execute_search_place(wfRun, wfOracle),
            "generate_response")

ExecuteDirectionsNode ==
    /\ wfNode = "execute_directions"
    /\ Goto("execute_directions", execute_directions(wfRun, wfOracle),
            "generate_response")

GenerateResponseNode ==
    /\ wfNode = "generate_response"
    /\ Goto("generate_response", generate_response(wfRun, wfOracle), "END")

\* graph.ainvoke({"messages": msgs}) has been called: START -> classify_intent
InitWorkflow ==
    /\ mode \in {"cli", "telegram"}
    /\ RegistryConnected
    /\ user_messages = <<>>
    /\ pending_approvals = <<>>
    /\ cli_messages = <<>>
    /\ nextId = 0
    /\ ev = NoEvent
    /\ wfNode = "classify_intent"
    /\ \E msgs \in WorkflowInputs, cp \in Checkpoints(mode = "cli") :
          wfRun = StartFrom(msgs, cp)
    /\ wfOracle \in WorkflowOracles(mode = "cli")
    /\ wfTrace = <<>>
    /\ FunctionsIdle
    /\ DecisionsIdle

NextWorkflow ==
    \/ ClassifyIntentNode
    \/ FetchScheduleNode
    \/ EnrichWithTravelNode
    \/ ExtractEventInfoNode
    \/ ExecuteCreateEventNode
    \/ ExecuteSearchPlaceNode
    \/ ExecuteDirectionsNode
    \/ GenerateResponseNode

SpecWorkflow == InitWorkflow /\ [][NextWorkflow]_vars

\* The runs on a session's first user turn (whether a run ends does not
\* depend on the conversation it was started on).
InitWorkflowFirstTurn ==
    /\ InitWorkflow
    /\ wfRun = NewRun(<<HumanMessage(1)>>)

\* The event loop runs an invoked graph on: a node whose turn it is runs.
SpecWorkflowLive ==
    InitWorkflowFirstTurn /\ [][NextWorkflow]_vars /\ WF_vars(NextWorkflow)

----------------------------------------------------------------------------
(* Claims about the registry, checked under SpecRegistry *)

ConnectAllDone == regPc \in {"ready", "disconnecting", "closed"}
Succeeded == {p \in Providers : connOutcome[p] = "ok"}
Failed == {p \in Providers : connOutcome[p] \in IterationOutcomes \ {"ok"}}
UnionOfSucceeded == UNION {Range(catalog[p]) : p \in Succeeded}

LastDeclaring(n) ==
    LET idx == {i \in 1..Len(SERVERS) :
                   SERVERS[i] \in Succeeded /\ n \in Range(catalog[SERVERS[i]])}
    IN SERVERS[CHOOSE i \in idx : \A j \in idx : j <= i]

\* C7: after connect_all the registry holds exactly one descriptor per tool
\* name, also for a name two ready providers declare, and the name is
\* dispatched to the provider registered last.
C7_UniqueLastWins ==
    ConnectAllDone =>
        /\ NoDup(tools)
        /\ \A n \in DOMAIN tool_to_server : tool_to_server[n] = LastDeclaring(n)

\* C8: whenever call_tool dispatched to a provider, that provider is in the
\* connection map and its session is live (ready) at the time of the call.
C8_DispatchOnlyToLive ==
    lastCall.server # "none" =>
        /\ lastCall.server \in Range(connections)
        /\ lastCall.handle = "ready"

\* C9: call_tool with an unregistered name returns the 'tool not found'
\* value, does not raise and contacts no provider; with a registered name it
\* goes to the owning provider only and returns that provider's result; in
\* both cases the registry's own state is left as it was.
C9_State ==
    lastCall.kind # "none" =>
        IF lastCall.name \notin DOMAIN tool_to_server
        THEN /\ lastCall.kind = "returned"
             /\ lastCall.value = NotFound(lastCall.name)
             /\ lastCall.server = "none"
        ELSE /\ lastCall.server = tool_to_server[lastCall.name]
             /\ lastCall.kind = "returned" =>
                   lastCall.value \in
                       {EmptyText,
                        ProviderText(lastCall.server, lastCall.name, lastCall.args)}

C9_UnknownToolNotFound ==
    /\ []C9_State
    /\ [][(\E n \in ToolNames, a \in ArgVals, ans \in ProviderAnswers :
              CallTool(n, a, ans))
          => UNCHANGED <<connections, tools, tool_to_server, conn>>]_vars

C9_Witness ==
    /\ lastCall.kind = "returned"
    /\ lastCall.name \notin DOMAIN tool_to_server
    /\ tool_to_server # <<>>

\* C10: disconnect_all calls disconnect() on every provider of the
\* connection map, also when the teardown of one of them fails.
C10_TeardownAttemptedOnAll ==
    regPc = "closed" => Range(connections) \subseteq attempted

\* C11: disconnect() is idempotent and safe in every state: whatever the
\* state of the connection (never connected, failed partway, connected,
\* already disconnected) and however often it is called, the session and
\* the client are each torn down (exited) at most once.
C11_DisconnectIdempotent ==
    \A p \in Providers :
        /\ exits[p].session <= 1
        /\ exits[p].client <= 1

\* the lifecycle state of provider p's connection, read off its handles
ConnState(p) ==
    IF connOutcome[p] \in ConnectFailures THEN "failed"
    ELSE CASE conn[p] = NewConnection -> "disconnected"
           [] conn[p].session = "ready" -> "ready"
           [] conn[p].session = "closed" /\ conn[p].client = "closed" -> "disconnected"
           [] OTHER -> "disconnecting"

\* the moves of the lifecycle one operation can make (connect passes through
\* connecting, a successful disconnect through disconnecting)
LifecycleMoves ==
    {<<"disconnected", "ready">>, <<"disconnected", "failed">>,
     <<"ready", "disconnecting">>, <<"ready", "disconnected">>,
     <<"disconnecting", "disconnected">>}

\* C12: every connection only moves along disconnected -> connecting -> ready
\* -> disconnecting -> disconnected, failed is entered from connecting only
\* and never left, and a tool is invoked on a connection only while the
\* connection is ready.
C12_ConnectionLifecycle ==
    /\ [][\A p \in Providers :
             \/ ConnState(p)' = ConnState(p)
             \/ <<ConnState(p), ConnState(p)'>> \in LifecycleMoves]_vars
    /\ [](lastCall.server # "none" =>
             /\ connOutcome[lastCall.server] \notin ConnectFailures
             /\ lastCall.handle = "ready")

----------------------------------------------------------------------------
(* Claims about the approval gate, checked under Spec *)

Sensitive(call) == call.name \in TOOLS_REQUIRING_APPROVAL

\* C1: in both deployment modes every registry call of a tool that requires
\* approval is preceded by an approved or modified decision for that call.
C1_SensitiveCallsGated ==
    \A i \in 1..Len(ev.calls) :
        Sensitive(ev.calls[i]) => ev.calls[i].gate \in {"approved", "modified"}

\* C2: in Telegram mode a message turn that reaches a sensitive tool call
\* does not execute it: a pending approval is stored for the user, the reply
\* is the approval request, and the user's conversation holds no final
\* answer of that turn yet.
C2_AsyncTurnSuspends ==
    (mode = "telegram" /\ ev.kind = "message" /\ ev.sensitive /\ ev.reply # "error") =>
        /\ \A i \in 1..Len(ev.calls) : ~Sensitive(ev.calls[i])
        /\ ev.user \in DOMAIN pending_approvals
        /\ ev.reply = "approval_request"
        /\ Last(user_messages[ev.user]).role = "human"

\* the step is user u's decision `data` on u's pending approval, answered `reply`
DecisionStep(u, data, reply) ==
    /\ u \in DOMAIN pending_approvals
    /\ u \notin DOMAIN pending_approvals'
    /\ ev'.kind = "approval" /\ ev'.user = u
    /\ ev'.data = data /\ ev'.reply = reply

\* C3: an approve decision invokes the registry exactly once, with the stored
\* tool name and arguments, appends the result as a tool-result turn, and
\* then calls the language model exactly once more for the final answer; no
\* other tool is invoked by the resume.
C3_ApproveInvokesOnce ==
    [][\A u \in Users :
          DecisionStep(u, "approve", "completed") =>
             LET p == pending_approvals[u]
             IN /\ Len(ev'.calls) = 1
                /\ ev'.calls[1].name = p.tool_name
                /\ ev'.calls[1].args = p.tool_args
                /\ ev'.llm = 1
                /\ Len(user_messages'[u]) = Len(p.full_result) + 2
                /\ user_messages'[u][Len(p.full_result) + 1] =
                      ToolMessage(ev'.calls[1].value, p.tool_call_id)
                /\ Last(user_messages'[u]).role = "ai"]_vars

C5_PendingNeverOverwritten ==
    [][\A u \in Users :
          (/\ u \in DOMAIN pending_approvals
           /\ ev'.kind = "message" /\ ev'.user = u
           /\ nextId' = nextId + 1) =>
             /\ u \in DOMAIN pending_approvals'
             /\ pending_approvals'[u] = pending_approvals[u]
             /\ ev'.reply # "approval_request"]_vars

----------------------------------------------------------------------------
(* Claims about the workflow graph, checked under SpecWorkflow *)

\* classify_intent has just returned
AfterClassify == Len(wfTrace) = 1 /\ wfNode # "RAISED"

\* C13 as claimed: whenever the classifier's text contains "create_event",
\* intent is create_event and the run goes to extract_event_info, also when
\* check_schedule, search_place or get_directions occur in the text.
C13_CreateEventAlwaysWins ==
    (AfterClassify /\ "create_event" \in wfOracle.text) =>
        /\ wfRun.intent = "create_event"
        /\ wfNode = "extract_event_info"

\* C13 amended: a text that contains "create_event" and not "check_schedule"
\* gives intent create_event and the run goes to extract_event_info, also
\* when search_place or get_directions occur in it; a text that contains
\* "check_schedule" gives check_schedule and goes to fetch_schedule, also
\* when "create_event" occurs in it (first match in the order
\* check_schedule, create_event, search_place, get_directions).
C13_CreateEventUnlessSchedule ==
    AfterClassify =>
        /\ ("create_event" \in wfOracle.text /\ "check_schedule" \notin wfOracle.text) =>
               (wfRun.intent = "create_event" /\ wfNode = "extract_event_info")
        /\ "check_schedule" \in wfOracle.text =>
               (wfRun.intent = "check_schedule" /\ wfNode = "fetch_schedule")

C13_Witness ==
    /\ AfterClassify
    /\ {"create_event", "search_place", "get_directions"} \subseteq wfOracle.text
    /\ wfNode = "extract_event_info"

Intents == Labels \cup {"general"}

\* the entry node of each intent's branch
EntryNode ==
    [check_schedule |-> "fetch_schedule", create_event |-> "extract_event_info",
     search_place |-> "execute_search_place", get_directions |-> "execute_directions",
     general |-> "generate_response"]

\* C14: after classify_intent, whatever the language model answered, intent
\* is one of check_schedule, create_event, search_place, get_directions,
\* general; it is general when the answer contains none of the four labels
\* (and only then); and the run continues at the entry node of that intent's
\* branch, generate_response for general.
C14_IntentEnumAndRouting ==
    /\ (wfTrace # <<>> /\ ~(Len(wfTrace) = 1 /\ wfNode = "RAISED")) =>
          wfRun.intent \in Intents
    /\ AfterClassify =>
          /\ wfRun.intent \in Intents
          /\ (wfRun.intent = "general") <=> (wfOracle.text \cap Labels = {})
          /\ wfRun.intent # "general" => wfRun.intent \in wfOracle.text
          /\ wfNode = EntryNode[wfRun.intent]

C14_Witness ==
    /\ AfterClassify
    /\ wfOracle.text = {}
    /\ wfRun.intent = "general"
    /\ wfNode = "generate_response"

\* how often node n has run
Executions(n) == Cardinality({i \in 1..Len(wfTrace) : wfTrace[i] = n})

\* no language-model call of the run fails and none answers an extraction
\* prompt with JSON that is not an object (the tool calls may fail)
OnlyToolsFail == wfOracle.llmFail = "none" /\ wfOracle.parse # "non_object"

\* C15: whatever subset of the run's tool calls raises or returns an error,
\* no exception leaves a node, generate_response runs exactly once and the
\* run then reaches END.
C15_ToolFailuresNeverAbort ==
    /\ [](OnlyToolsFail => (wfNode # "RAISED" /\ Executions("generate_response") <= 1))
    /\ [](OnlyToolsFail /\ wfNode = "END" => Last(wfTrace) = "generate_response")
    /\ (OnlyToolsFail => <>(wfNode = "END" /\ Executions("generate_response") = 1))

C15_Witness ==
    /\ wfNode = "END"
    /\ OnlyToolsFail
    /\ wfRun.intent = "check_schedule"
    /\ \E i, j \in 1..Len(wfRun.calls) :
          /\ i < j
          /\ wfRun.calls[i].kind = "returned"
          /\ wfRun.calls[j].kind = "raised"

\* C17: generate_response is the only node that changes messages, and it
\* appends exactly one assistant message; every other node leaves messages
\* as they are, so a run that reaches END has extended the conversation it
\* was started on by exactly one assistant message.
C17_OnlyGenerateResponseAppends ==
    /\ [][wfTrace' # wfTrace =>
             IF Last(wfTrace') = "generate_response" /\ wfNode' = "END"
             THEN /\ Len(wfRun'.messages) = Len(wfRun.messages) + 1
                  /\ SubSeq(wfRun'.messages, 1, Len(wfRun.messages)) = wfRun.messages
                  /\ Last(wfRun'.messages).role = "ai"
             ELSE wfRun'.messages = wfRun.messages]_vars
    /\ [](wfNode = "END" =>
             /\ Executions("generate_response") = 1
             /\ SubSeq(wfRun.messages, 1, Len(wfRun.messages) - 1) \in WorkflowInputs)

C17_Witness ==
    /\ wfNode = "END"
    /\ Len(wfTrace) >= 3
    /\ Len(wfRun.messages) = 4
    /\ wfRun.messages[3].role = "human"
    /\ Last(wfRun.messages).role = "ai"

----------------------------------------------------------------------------
(* Claims about turns and sessions, checked under Spec *)

\* C16: every user turn, also one in which a language-model call fails, ends
\* with a message to the user and leaves the session able to take further
\* turns, in the terminal loop and in the Telegram handler alike.
C16_EveryTurnAnswered ==
    /\ ev.kind = "message" =>
          ev.reply \in {"answer", "approval_request", "error", "denied"}
    /\ ev.kind = "cli_turn" => (ev.reply = "answer" /\ regPc = "ready")

\* C18: no operation of the registry and no operation of the approval gate
\* writes a session's conversation: a cancel decision and an approve decision
\* whose tool call fails (no workflow node runs in either) leave
\* user_messages as it is, and so does the teardown of a connection.
C18_GateNeverWritesConversation ==
    [][/\ \A u \in Users :
             DecisionStep(u, "cancel", "cancelled") => UNCHANGED user_messages
       /\ \A u \in Users :
             (DecisionStep(u, "approve", "error") /\ ev'.llm = 0) =>
                 UNCHANGED user_messages
       /\ (\E out \in DisconnectOutcomes : DisconnectStep(out)) =>
             UNCHANGED <<user_messages, cli_messages>>]_vars

\* the entry of user b in map f is the same before and after the step
SameEntry(f, g, b) ==
    /\ (b \in DOMAIN f) <=> (b \in DOMAIN g)
    /\ b \in DOMAIN f => g[b] = f[b]

IsPrefix(s, t) == Len(s) <= Len(t) /\ SubSeq(t, 1, Len(s)) = s

\* C20: the turns of one session follow each other and none is lost: an
\* answered message turn extends the session's conversation by the user's
\* message and the reply, and no event other than a clear takes a message
\* out of a session's conversation.
C20_NoTurnLost ==
    [][/\ \A u \in DOMAIN user_messages :
             ev'.kind # "clear" =>
                /\ u \in DOMAIN user_messages'
                /\ IsPrefix(user_messages[u], user_messages'[u])
       /\ (ev'.kind = "message" /\ ev'.reply = "answer" /\ nextId' = nextId + 1) =>
             LET u == ev'.user
                 old == IF u \in DOMAIN user_messages THEN user_messages[u] ELSE <<>>
             IN /\ Len(user_messages'[u]) = Len(old) + 2
                /\ IsPrefix(Append(old, HumanMessage(nextId')), user_messages'[u])
                /\ Last(user_messages'[u]).role = "ai"]_vars

\* C21: an authorized clear sets that user's conversation to the empty
\* sequence; no step removes a session's conversation, and every step other
\* than the user's own clear leaves the conversation a prefix of what it
\* becomes (it only grows by appended turns).
C21_ClearOnlyResets ==
    [][\A u \in DOMAIN user_messages :
          /\ u \in DOMAIN user_messages'
          /\ IF ev'.kind = "clear" /\ ev'.reply = "cleared" /\ ev'.user = u
             THEN user_messages'[u] = <<>>
             ELSE IsPrefix(user_messages[u], user_messages'[u])]_vars

----------------------------------------------------------------------------
(* Helper functions (src/agent.py:48-132, 685-759), each applied to inputs   *)
(* drawn from bounded sets: SpecFunctions                                    *)

\* ---- _get_python_type / json_schema_to_pydantic ----
\* The "type" entry of a parameter's schema: one of the six tags of type_map,
\* missing, another string ("null"), or a list of tags (JSON Schema allows
\* "type": ["string", "null"]), which is not hashable.
type_map ==
    [string |-> "str", integer |-> "int", number |-> "float",
     boolean |-> "bool", array |-> "list", object |-> "dict"]
TypeTags == DOMAIN type_map \cup {"missing", "null", "tag_list"}

Returned(v) == [raised |-> "none", value |-> v]
Raised(e) == [raised |-> e, value |-> <<>>]

_get_python_type(tag) ==
    LET json_type == IF tag = "missing" THEN "string" ELSE tag
    IN IF json_type = "tag_list" THEN Raised("TypeError")
       ELSE IF json_type \in DOMAIN type_map THEN Returned(type_map[json_type])
       ELSE Returned("str")

\* a schema: the list of its properties, each with its type tag and whether
\* it is in "required"
ParamNames == <<"a", "b">>
Params(n) == [1..n -> [tag : TypeTags, required : BOOLEAN]]
Schemas == UNION {Params(n) : n \in 0..Len(ParamNames)}

\* pydantic's create_model on a field whose name starts with an underscore:
\* the field is ignored with a warning (pydantic 1) or NameError is raised
\* (pydantic 2)
CreateModelOutcomes == {"ignored", "NameError"}

Field(name, type, required) == [name |-> name, type |-> type, required |-> required]

json_schema_to_pydantic(schema, lib) ==
    IF \E i \in 1..Len(schema) : _get_python_type(schema[i].tag).raised # "none"
    THEN Raised("TypeError")
    ELSE IF schema = <<>>
    THEN \* fields["_placeholder"] = (Optional[str], Field(default=None))
         IF lib = "NameError" THEN Raised("NameError") ELSE Returned(<<>>)
    ELSE Returned([i \in 1..Len(schema) |->
                      Field(ParamNames[i], _get_python_type(schema[i].tag).value,
                            schema[i].required)])

\* ---- get_human_approval, argument by argument ----
\* A value is its Python type and its text.
Val(t, s) == [t |-> t, s |-> s]
OriginalValues == {Val("str", "abc"), Val("int", "5"), Val("float", "1.5")}
ArgKeys == {"k1", "k2"}
ArgDicts == [ArgKeys -> OriginalValues]
\* what the user types for one argument, after strip()
TypedTexts == {"", "7", "2.5", "xyz"}
IntTexts == {"7"}
FloatTexts == {"7", "2.5"}
Choices == {"", "e", "n", "y"}
Confirms == {"", "n"}

\* the loop of the 'e' branch
ModifiedArgs(args, typed) ==
    [k \in DOMAIN args |->
        IF typed[k] = "" THEN args[k]
        ELSE IF args[k].t = "int"
             THEN IF typed[k] \in IntTexts
                  THEN Val("int", typed[k])
                  ELSE Val("str", typed[k])
             ELSE Val("str", typed[k])]

ApprovalOf(args, choice, typed, confirm) ==
    IF choice = "n" THEN [approved |-> FALSE, args |-> args]
    ELSE IF choice = "e"
    THEN [approved |-> confirm # "n", args |-> ModifiedArgs(args, typed)]
    ELSE [approved |-> TRUE, args |-> args]

\* execute_create_event's use of the gate: the tool is invoked with the
\* returned arguments iff approved
ApprovedInvocation(args, choice, typed, confirm) ==
    LET a == ApprovalOf(args, choice, typed, confirm)
    IN [approved |-> a.approved, args |-> a.args,
        calls |-> IF a.approved THEN <<a.args>> ELSE <<>>]

FunctionCalls ==
    {[fn |-> "parse_duration_minutes", text |-> t] : t \in DurationTexts}
    \cup {[fn |-> "calculate_departure_time", event_time |-> e,
           duration_minutes |-> d, buffer_minutes |-> b] :
              e \in EventTimes, d \in Durations, b \in Buffers}
    \cup {[fn |-> "json_schema_to_pydantic", schema |-> sc, lib |-> l] :
              sc \in Schemas, l \in CreateModelOutcomes}
    \cup {[fn |-> "get_human_approval", args |-> a, choice |-> c,
           typed |-> ty, confirm |-> cf] :
              a \in ArgDicts, c \in Choices, ty \in [ArgKeys -> TypedTexts],
              cf \in Confirms}

Return(fn, value) ==
    /\ fnCall.fn = fn
    /\ fnResult = <<>>
    /\ fnResult' = <<value>>
    /\ UNCHANGED <<regVars, botVars, wfVars, fnCall, cbVars>>

ParseDuration ==
    /\ fnCall.fn = "parse_duration_minutes"
    /\ Return("parse_duration_minutes", parse_duration_minutes(fnCall.text))

CalculateDeparture ==
    /\ fnCall.fn = "calculate_departure_time"
    /\ Return("calculate_departure_time",
              calculate_departure_time(fnCall.event_time, fnCall.duration_minutes,
                                       fnCall.buffer_minutes))

SchemaToPydantic ==
    /\ fnCall.fn = "json_schema_to_pydantic"
    /\ Return("json_schema_to_pydantic",
              json_schema_to_pydantic(fnCall.schema, fnCall.lib))

HumanApproval ==
    /\ fnCall.fn = "get_human_approval"
    /\ Return("get_human_approval",
              ApprovedInvocation(fnCall.args, fnCall.choice, fnCall.typed,
                                 fnCall.confirm))

InitFunctions ==
    /\ connections = <<>>
    /\ tools = <<>>
    /\ tool_to_server = <<>>
    /\ conn = [p \in Providers |-> NewConnection]
    /\ catalog = DeclaredCatalog
    /\ connOutcome = [p \in Providers |-> "todo"]
    /\ regPc = "idle"
    /\ regIdx = 1
    /\ regRaised = "none"
    /\ attempted = {}
    /\ lastCall = NoCall
    /\ exits = [p \in Providers |-> NoExits]
    /\ BotIdle
    /\ WorkflowIdle
    /\ DecisionsIdle
    /\ fnCall \in FunctionCalls
    /\ fnResult = <<>>

NextFunctions ==
    \/ ParseDuration
    \/ CalculateDeparture
    \/ SchemaToPydantic
    \/ HumanApproval

SpecFunctions == InitFunctions /\ [][NextFunctions]_vars

----------------------------------------------------------------------------
(* Claims about the helper functions, checked under SpecFunctions *)

Returns(fn) == fnCall.fn = fn /\ fnResult # <<>>

\* C22: parse_duration_minutes returns 45 for "Duration: 45 mins", 90 for
\* "1<sigan> 30<bun>", 120 for "2 hour" and absent for a text in which no
\* number is followed by a unit; an hour-plus-minute text yields
\* 60*hours + minutes and a lone hour value yields 60*hours.
C22_ParseDurationExamples ==
    Returns("parse_duration_minutes") =>
        LET t == fnCall.text
            r == fnResult[1]
        IN /\ t = <<Word("Duration:"), Num(45), Word("min")>> => r = Present(45)
           /\ t = <<Num(1), Word("sigan"), Num(30), Word("bun")>> => r = Present(90)
           /\ t = <<Num(2), Word("hour")>> => r = Present(120)
           /\ (\A i \in 1..Len(t) : t[i].w # "num") => r = Absent
           /\ \A h, m \in DurationNumbers :
                 /\ t = <<Word("Duration:"), Num(h), Word("hour"), Num(m), Word("min")>>
                       => r = Present(60 * h + m)
                 /\ t = <<Num(h), Word("sigan"), Num(m), Word("bun")>>
                       => r = Present(60 * h + m)
                 /\ t = <<Num(h), Word("sigan")>> => r = Present(60 * h)
                 /\ t = <<Num(h), Word("hour")>> => r = Present(60 * h)

\* C23: for every event time HH:MM, every duration >= 1 and every buffer
\* >= 0, calculate_departure_time returns the clock time
\* ((60*HH+MM) - (duration+buffer)) mod 1440, printed as hours and minutes,
\* hence a time between 00:00 and 23:59; ("09:00", 50, 10) gives 08:00 and
\* ("00:10", 30, 10) gives 23:30.
C23_DepartureModulo1440 ==
    (/\ Returns("calculate_departure_time")
     /\ fnCall.event_time.kind = "clock"
     /\ fnCall.duration_minutes >= 1) =>
        LET e == fnCall.event_time
            w == ((60 * e.h + e.m) - (fnCall.duration_minutes + fnCall.buffer_minutes)) % 1440
            r == fnResult[1]
        IN /\ r = Departure(w \div 60, w % 60)
           /\ r.h \in 0..23 /\ r.m \in 0..59
           /\ (e = Clock(9, 0) /\ fnCall.duration_minutes = 50 /\ fnCall.buffer_minutes = 10)
                 => r = Departure(8, 0)
           /\ (e = Clock(0, 10) /\ fnCall.duration_minutes = 30 /\ fnCall.buffer_minutes = 10)
                 => r = Departure(23, 30)

\* the typed text converts to the type t
Converts(t, text) ==
    \/ t = "str"
    \/ t = "int" /\ text \in IntTexts
    \/ t = "float" /\ text \in FloatTexts

\* C25: 'n' yields cancelled and no tool invocation; accepting yields
\* approved with the proposed arguments unchanged; 'e' followed by a confirm
\* yields an invocation with the edited arguments, in which an argument left
\* blank keeps its original value and an edited argument has the original
\* value's type when the typed text converts to it and is the raw typed
\* string otherwise; 'e' followed by 'n' causes no tool invocation.
C25_ApprovalGate ==
    Returns("get_human_approval") =>
        LET c == fnCall
            r == fnResult[1]
        IN /\ c.choice = "n" => (~r.approved /\ r.calls = <<>>)
           /\ c.choice \notin {"n", "e"} =>
                 (r.approved /\ r.args = c.args /\ r.calls = <<c.args>>)
           /\ (c.choice = "e" /\ c.confirm = "n") => (~r.approved /\ r.calls = <<>>)
           /\ (c.choice = "e" /\ c.confirm # "n") =>
                 /\ r.approved
                 /\ r.calls = <<r.args>>
                 /\ \A k \in ArgKeys :
                       r.args[k] =
                          IF c.typed[k] = "" THEN c.args[k]
                          ELSE IF Converts(c.args[k].t, c.typed[k])
                               THEN Val(c.args[k].t, c.typed[k])
                               ELSE Val("str", c.typed[k])

\* the argument type the claim gives to a type tag
ExpectedType(tag) ==
    CASE tag = "string" -> "str"
      [] tag = "integer" -> "int"
      [] tag = "number" -> "float"
      [] tag = "boolean" -> "bool"
      [] tag = "array" -> "list"
      [] tag = "object" -> "dict"
      [] OTHER -> "str"

\* C26: json_schema_to_pydantic never fails on a well-formed schema: a
\* schema with zero parameters yields an argument shape without parameters,
\* each of the six known type tags maps to its argument type, and every
\* other or missing type tag maps to string.
C26_SchemaAdapterTotal ==
    Returns("json_schema_to_pydantic") =>
        LET sc == fnCall.schema
            r == fnResult[1]
        IN /\ r.raised = "none"
           /\ Len(r.value) = Len(sc)
           /\ \A i \in 1..Len(sc) :
                 /\ r.value[i].type = ExpectedType(sc[i].tag)
                 /\ r.value[i].required = sc[i].required

----------------------------------------------------------------------------
(* Claims about the schedule branch, checked under SpecWorkflow *)

\* the run is a finished check_schedule turn whose fetch_schedule returned
\* one item that has a location and a clock start time
OneLocatedItemTurn ==
    /\ wfNode = "END"
    /\ wfRun.intent = "check_schedule"
    /\ Len(wfRun.events) = 1
    /\ HasLocation(wfRun.events[1])
    /\ wfRun.events[1].start_time.kind = "clock"

\* the run went through enrich_with_travel, which produced one annotation
\* with a suggested departure time, and the context names the event's
\* summary and that departure time
SummaryAndDepartureInContext ==
    /\ wfTrace = <<"classify_intent", "fetch_schedule", "enrich_with_travel",
                   "generate_response">>
    /\ Len(wfRun.travel_info) = 1
    /\ wfRun.travel_info[1].suggested_departure.present
    /\ \E i \in 1..Len(wfRun.context) :
          /\ wfRun.context[i].kind = "event"
          /\ wfRun.context[i].text = <<wfRun.events[1].summary>>
    /\ \E i \in 1..Len(wfRun.context) :
          /\ wfRun.context[i].kind = "travel"
          /\ wfRun.context[i].departure = wfRun.travel_info[1].suggested_departure

DirectionsParseable ==
    LET c == CallToolResult(Registry, conn, "get_directions", "route", wfOracle.ans2[1])
        d == parse_duration_minutes(DirectionsText(c, wfOracle))
    IN c.kind = "returned" /\ d.present /\ d.value # 0

----------------------------------------------------------------------------
(* Claims about the branches' tool failures, checked under SpecWorkflow *)

\* the tool invocation failed: it raised, or the registry answered that the
\* tool is not found
FailedCall(c) == c.kind = "raised" \/ c.value = NotFound(c.name)

\* the tool a branch invokes for the turn's intent
BranchTool ==
    [check_schedule |-> "get_events", create_event |-> "create_event",
     search_place |-> "search_places", get_directions |-> "get_directions"]

ErrorLineKinds == {"travel_error", "create_failed", "search_failed", "directions_failed"}

\* C27: in every branch, when the branch's tool invocation fails (raises or
\* answers 'tool not found'), the context generate_response builds from the
\* turn's state reports the failure (an error line, or the failure text
\* itself) and reports neither 'no events found' nor a successful creation.
C27_ToolFailureSurfaced ==
    (wfNode = "END" /\ wfRun.intent \in DOMAIN BranchTool) =>
        \A i \in 1..Len(wfRun.calls) :
            (wfRun.calls[i].name = BranchTool[wfRun.intent] /\ FailedCall(wfRun.calls[i])) =>
                /\ \A j \in 1..Len(wfRun.context) :
                      wfRun.context[j].kind \notin {"no_events", "created"}
                /\ \E j \in 1..Len(wfRun.context) :
                      \/ wfRun.context[j].kind \in ErrorLineKinds
                      \/ wfRun.context[j].text = wfRun.calls[i].value

----------------------------------------------------------------------------
(* Claims about the shape of the graph, checked under SpecWorkflow *)

\* the items, travel annotations and context the run on the same messages
\* and answers has when it starts from an empty State
FreshRun == RunGraph(SubSeq(wfRun.messages, 1, Len(wfRun.messages) - 1), wfOracle,
                     use_cli_approval)

\* C28: classify_intent is the first node of every run and leaves events and
\* travel_info empty, so what generate_response consumes (events,
\* travel_info, and the context built from them) is what a run from an empty
\* State gathers: nothing of an earlier turn carries over.
C28_ScratchResetEveryTurn ==
    /\ wfTrace # <<>> => wfTrace[1] = "classify_intent"
    /\ (wfTrace = <<"classify_intent">> /\ wfNode # "RAISED") =>
          (wfRun.events = <<>> /\ wfRun.travel_info = <<>>)
    /\ wfNode = "END" =>
          /\ wfRun.events = FreshRun.events
          /\ wfRun.travel_info = FreshRun.travel_info
          /\ wfRun.context = FreshRun.context

\* a later turn of the terminal session, started from the State an earlier
\* check_schedule turn left, has ended without gathering travel annotations
C28_Witness ==
    /\ wfNode = "END"
    /\ mode = "cli"
    /\ Len(wfRun.messages) = 4
    /\ wfRun.intent = "check_schedule"
    /\ wfRun.events # <<>>
    /\ wfRun.travel_info = <<>>
    /\ wfRun.resumed

\* the node sequences from START to END, one per branch
BranchPaths ==
    {<<"classify_intent", "generate_response">>,
     <<"classify_intent", "fetch_schedule", "generate_response">>,
     <<"classify_intent", "fetch_schedule", "enrich_with_travel", "generate_response">>,
     <<"classify_intent", "extract_event_info", "execute_create_event",
       "generate_response">>,
     <<"classify_intent", "execute_search_place", "generate_response">>,
     <<"classify_intent", "execute_directions", "generate_response">>}

C30_EnrichIffLocation ==
    /\ [][(wfNode = "fetch_schedule" /\ wfNode' # "RAISED") =>
            /\ wfNode' \in {"enrich_with_travel", "generate_response"}
            /\ wfNode' = "enrich_with_travel" <=>
                  \E i \in 1..Len(wfRun'.events) :
                      wfRun'.events[i].location \notin {"none", ""}]_vars
    /\ [](/\ wfNode \in {"generate_response", "END"}
          /\ Len(wfTrace) >= 2 /\ wfTrace[2] = "fetch_schedule"
          /\ \A i \in 1..Len(wfTrace) : wfTrace[i] # "enrich_with_travel"
          => wfRun.travel_info = <<>>)

\* a schedule whose only item has an empty location went straight to
\* generate_response
C30_Witness ==
    /\ wfNode = "END"
    /\ wfTrace = <<"classify_intent", "fetch_schedule", "generate_response">>
    /\ Len(wfRun.events) = 1
    /\ wfRun.events[1].location = ""
    /\ wfRun.travel_info = <<>>

----------------------------------------------------------------------------
(* Claims about the nodes of the branches, checked under SpecWorkflow *)

\* the positions of the items that have a location, in the items' order
Located(events) ==
    LET HasLoc(i) == HasLocation(events[i])
    IN SelectSeq([i \in 1..Len(events) |-> i], HasLoc)

\* the run's calls of tool `name`, in the order they were made
CallsOf(name) ==
    LET IsCall(c) == c.name = name
    IN SelectSeq(wfRun.calls, IsCall)

EnrichRan == \E i \in 1..Len(wfTrace) : wfTrace[i] = "enrich_with_travel"

\* C31: after enrich_with_travel, travel_info holds exactly one annotation
\* per item that has a location and none for the other items, in the items'
\* order; the annotation of an item whose directions call failed is an error
\* annotation at that item's position, and the items after it are annotated
\* all the same.
C31_OneAnnotationPerLocatedItem ==
    EnrichRan =>
        LET located == Located(wfRun.events)
            lookups == CallsOf("get_directions")
        IN /\ Len(wfRun.travel_info) = Len(located)
           /\ Len(lookups) = Len(located)
           /\ \A k \in 1..Len(located) :
                 /\ wfRun.travel_info[k].event_summary = wfRun.events[located[k]].summary
                 /\ wfRun.travel_info[k].destination = wfRun.events[located[k]].location
                 /\ wfRun.travel_info[k].error <=> lookups[k].kind = "raised"

\* the lookup of the first of two located items failed, the second did not
C31_Witness ==
    /\ EnrichRan
    /\ wfRun.events = TwoLocatedItems
    /\ Len(wfRun.travel_info) = 2
    /\ wfRun.travel_info[1].error
    /\ ~wfRun.travel_info[2].error
    /\ wfRun.travel_info[2].suggested_departure.present

ParseError == ErrorEvent("Could not parse event details")

\* the run is in the create-event branch, extract_event_info has run without
\* a failing language-model call, and the answer it got is not parseable
ParseFailed ==
    /\ Len(wfTrace) >= 2 /\ wfTrace[2] = "extract_event_info"
    /\ wfNode # "RAISED"
    /\ wfOracle.parse = "garbage"

\* C32: when extract_event_info cannot parse the language-model output it
\* leaves the error record as the only event and raises nothing;
\* execute_create_event then reads no approval and makes no registry call,
\* and generate_response finds the same error record and reports it.
C32_ParseFailureSkipsGateAndTool ==
    ParseFailed =>
        /\ wfRun.events = <<ParseError>>
        /\ wfRun.calls = <<>>
        /\ ~wfRun.sensitive
        /\ wfNode = "END" =>
              wfRun.context = <<Line("create_failed", <<ParseError.error>>, NoDeparture)>>

C32_Witness ==
    /\ ParseFailed
    /\ wfNode = "END"
    /\ mode = "cli"
    /\ wfTrace = <<"classify_intent", "extract_event_info", "execute_create_event",
                   "generate_response">>
    /\ wfRun.events = <<ParseError>>

----------------------------------------------------------------------------
(* Claims about the period fetch_schedule asks for, checked under SpecWorkflow *)

\* the period text is of the form "start to end" with two dates
ParseableRange(p) == p = "range"

\* the get_events invocations of the run
EventsCalls == {i \in 1..Len(wfRun.calls) : wfRun.calls[i].name = "get_events"}

\* fetch_schedule has run in a turn classified check_schedule and its
\* language-model call returned a period text
FetchRan ==
    /\ Len(wfTrace) >= 2 /\ wfTrace[2] = "fetch_schedule"
    /\ wfOracle.llmFail # "branch"

\* C33: when the period text is neither a shortcut nor a parseable date
\* range, get_events is invoked with period "today" and fetch_schedule does
\* not fail the turn; get_events is invoked with a start and end date only when the text
\* is a parseable "start to end" range.
C33_PeriodDefaultsToToday ==
    FetchRan =>
        /\ EventsCalls # {}
        /\ ~(wfNode = "RAISED" /\ Last(wfTrace) = "fetch_schedule")
        /\ \A i \in EventsCalls :
              /\ (wfOracle.period \notin PeriodShortcuts /\ ~ParseableRange(wfOracle.period))
                    => wfRun.calls[i].args = "today"
              /\ wfRun.calls[i].args \notin PeriodShortcuts
                    => ParseableRange(wfOracle.period)

----------------------------------------------------------------------------
(* Claims about the tools each branch invokes, checked under SpecWorkflow *)

\* the node sequences from START to END of the branch of one intent
PathsOf(intent) ==
    CASE intent = "check_schedule" ->
            {<<"classify_intent", "fetch_schedule", "generate_response">>,
             <<"classify_intent", "fetch_schedule", "enrich_with_travel",
               "generate_response">>}
      [] intent = "create_event" ->
            {<<"classify_intent", "extract_event_info", "execute_create_event",
               "generate_response">>}
      [] intent = "search_place" ->
            {<<"classify_intent", "execute_search_place", "generate_response">>}
      [] intent = "get_directions" ->
            {<<"classify_intent", "execute_directions", "generate_response">>}
      [] OTHER -> {<<"classify_intent", "generate_response">>}

\* classify_intent has set the intent of this run
Classified == wfTrace # <<>> /\ ~(wfNode = "RAISED" /\ Len(wfTrace) = 1)

\* C34: a turn executes the nodes of the one branch of its intent; a turn
\* classified general invokes no tool; create_event is invoked only when
\* the intent is create_event, get_events only when it is check_schedule and
\* search_places only when it is search_place.
C34_OneBranchItsToolsOnly ==
    Classified =>
        /\ \E path \in PathsOf(wfRun.intent) : IsPrefix(wfTrace, path)
        /\ wfNode = "END" => wfTrace \in PathsOf(wfRun.intent)
        /\ wfRun.intent = "general" => wfRun.calls = <<>>
        /\ \A i \in 1..Len(wfRun.calls) :
              /\ wfRun.calls[i].name = "create_event" => wfRun.intent = "create_event"
              /\ wfRun.calls[i].name = "get_events" => wfRun.intent = "check_schedule"
              /\ wfRun.calls[i].name = "search_places" => wfRun.intent = "search_place"

\* a turn classified general has ended on a conversation that already held an
\* earlier turn
C34_Witness ==
    /\ wfNode = "END"
    /\ wfRun.intent = "general"
    /\ wfTrace = <<"classify_intent", "generate_response">>
    /\ wfRun.calls = <<>>
    /\ Len(wfRun.messages) > 2

\* a create_event turn has invoked its tool
C34_WitnessCreate ==
    /\ wfNode = "END"
    /\ wfRun.intent = "create_event"
    /\ \E i \in 1..Len(wfRun.calls) : wfRun.calls[i].name = "create_event"

----------------------------------------------------------------------------
(* handle_approval_callback step by step: each await of the handler is a    *)
(* point where another decision callback may run. Under the default         *)
(* Application (no concurrent_updates) the callbacks run one after another, *)
(* which is one of the interleavings explored here.                         *)

MaxDecisions == 3

\* the conversation and pending record handle_message leaves for user u after
\* message n was answered with a create_event(a) tool call
RequestedMessages(n) == <<HumanMessage(n)>>
RequestedPending(n, a) ==
    PendingFor(ToolCall("create_event", a),
               <<HumanMessage(n), AIMessage(<<ToolCall("create_event", a)>>)>>)

\* a callback that has not arrived yet
NoDecision ==
    [user |-> "none", data |-> "none", pc |-> "idle", pending |-> <<>>,
     msgs |-> <<>>, reply |-> "none"]

\* the callback enters the handler: is_authorized, then `await query.answer()`
DecisionArrives(t) ==
    /\ mode = "telegram"
    /\ decisions[t].pc = "idle"
    /\ \E u \in Users, data \in {"approve", "cancel"} :
          decisions' = [decisions EXCEPT ![t] =
              IF ~is_authorized(u)
              THEN [NoDecision EXCEPT !.user = u, !.data = data, !.pc = "done",
                                      !.reply = "denied"]
              ELSE [NoDecision EXCEPT !.user = u, !.data = data, !.pc = "answered"]]
    /\ UNCHANGED <<regVars, botVars, wfVars, fnVars, executed>>

\* a handler that reads the pending record and leaves it stored
DecisionPopsKeepingRecord(t) ==
    LET d == decisions[t]
    IN /\ d.pc = "answered"
       /\ IF d.user \notin DOMAIN pending_approvals
          THEN decisions' = [decisions EXCEPT ![t].pc = "done", ![t].reply = "expired"]
          ELSE decisions' = [decisions EXCEPT
                  ![t].pending = <<pending_approvals[d.user]>>,
                  ![t].pc = IF d.data = "approve" THEN "executing" ELSE "cancelling"]
       /\ UNCHANGED pending_approvals
       /\ UNCHANGED <<regVars, wfVars, fnVars, executed, mode, user_messages,
                      cli_messages, nextId, ev>>

\* `if user_id not in pending_approvals: ... return` and
\* `pending = pending_approvals.pop(user_id)`, up to the next await
\* (edit_message_text)
DecisionPops(t) ==
    LET d == decisions[t]
    IN /\ d.pc = "answered"
       /\ IF d.user \notin DOMAIN pending_approvals
          THEN /\ decisions' = [decisions EXCEPT ![t].pc = "done",
                                                 ![t].reply = "expired"]
               /\ UNCHANGED pending_approvals
          ELSE /\ decisions' = [decisions EXCEPT
                     ![t].pending = <<pending_approvals[d.user]>>,
                     ![t].pc = IF d.data = "approve" THEN "executing" ELSE "cancelling"]
               /\ pending_approvals' = Remove(pending_approvals, d.user)
       /\ UNCHANGED <<regVars, wfVars, fnVars, executed, mode, user_messages,
                      cli_messages, nextId, ev>>

\* the cancel branch after its await: the conversation is replaced
DecisionCancels(t) ==
    LET d == decisions[t]
    IN /\ d.pc = "cancelling"
       /\ user_messages' = Put(user_messages, d.user, CancelledMessages(d.pending[1]))
       /\ decisions' = [decisions EXCEPT ![t].pc = "done", ![t].reply = "cancelled"]
       /\ UNCHANGED <<regVars, wfVars, fnVars, executed, mode, pending_approvals,
                      cli_messages, nextId, ev>>

\* `result = await mcp.call_tool(...)` and, when it returned, the assignment
\* of full_result plus the ToolMessage, up to `await graph.ainvoke`
DecisionCallsTool(t) ==
    LET d == decisions[t]
        p == d.pending[1]
    IN /\ d.pc = "executing"
       /\ \E ans \in ProviderAnswers :
             LET c == CallToolResult(Registry, conn, p.tool_name, p.tool_args, ans)
             IN /\ executed' = Append(executed, [by |-> t, user |-> d.user,
                                                 pending |-> p,
                                                 stored |-> d.user \in DOMAIN pending_approvals,
                                                 call |-> ApprovedCall(c)])
                /\ IF c.kind = "raised"
                   THEN /\ decisions' = [decisions EXCEPT ![t].pc = "done",
                                                          ![t].reply = "error"]
                        /\ UNCHANGED user_messages
                   ELSE LET msgs == Append(p.full_result,
                                           ToolMessage(c.value, p.tool_call_id))
                        IN /\ decisions' = [decisions EXCEPT ![t].pc = "resuming",
                                                             ![t].msgs = msgs]
                           /\ user_messages' = Put(user_messages, d.user, msgs)
       /\ UNCHANGED <<regVars, wfVars, fnVars, mode, pending_approvals,
                      cli_messages, nextId, ev>>

\* `final_result = await graph.ainvoke(...)` on the list assigned before the
\* await, and the assignment of its messages
DecisionResumes(t) ==
    LET d == decisions[t]
    IN /\ d.pc = "resuming"
       /\ \E o \in ResumeOracles :
          \E r \in {RunGraph(d.msgs, o, FALSE)} :
             IF r.raised
             THEN /\ decisions' = [decisions EXCEPT ![t].pc = "done", ![t].reply = "error"]
                  /\ UNCHANGED user_messages
             ELSE /\ decisions' = [decisions EXCEPT ![t].pc = "done",
                                                    ![t].reply = "completed"]
                  /\ user_messages' = Put(user_messages, d.user, r.messages)
       /\ UNCHANGED <<regVars, wfVars, fnVars, executed, mode, pending_approvals,
                      cli_messages, nextId, ev>>

InitDecisions ==
    /\ mode = "telegram"
    /\ RegistryConnected
    /\ WorkflowIdle
    /\ FunctionsIdle
    /\ cli_messages = <<>>
    /\ nextId = 2
    /\ ev = NoEvent
    /\ user_messages = Put(Put(<<>>, "u1", RequestedMessages(1)), "u2", RequestedMessages(2))
    /\ \E a \in ArgVals :
          pending_approvals \in
              {Put(<<>>, "u1", RequestedPending(1, a)),
               Put(Put(<<>>, "u1", RequestedPending(1, a)), "u2", RequestedPending(2, a))}
    /\ decisions = [t \in 1..MaxDecisions |-> NoDecision]
    /\ executed = <<>>

NextDecisions ==
    \/ \E t \in 1..MaxDecisions : DecisionArrives(t)
    \/ \E t \in 1..MaxDecisions : DecisionPops(t)
    \/ \E t \in 1..MaxDecisions : DecisionCancels(t)
    \/ \E t \in 1..MaxDecisions : DecisionCallsTool(t)
    \/ \E t \in 1..MaxDecisions : DecisionResumes(t)

SpecDecisions == InitDecisions /\ [][NextDecisions]_vars

----------------------------------------------------------------------------
(* Claims about decision callbacks, checked under SpecDecisions *)

\* the callbacks of user u that took the pending record out of the store
Holders(u) ==
    {t \in 1..Len(decisions) : decisions[t].user = u /\ decisions[t].pending # <<>>}

\* callback t finds no pending record for its user in this step
AnsweredExpired(t) ==
    /\ decisions[t].pc = "answered"
    /\ decisions[t].user \notin DOMAIN pending_approvals
    /\ decisions'[t].pc = "done"

\* C35: each Pending Approval is executed at most once: the record is out of
\* the store when its tool is invoked, at most one decision callback of a
\* session gets hold of it, and every other decision of that session, whether
\* it comes later or between the steps of the first, invokes no tool, leaves
\* the conversations and the store as they are and is answered as expired.
C35_PendingExecutedAtMostOnce ==
    /\ [](\A i, j \in 1..Len(executed) :
              i # j => executed[i].user # executed[j].user)
    /\ [](\A i \in 1..Len(executed) :
              /\ ~executed[i].stored
              /\ executed[i].by \in Holders(executed[i].user))
    /\ [](\A u \in Users : Cardinality(Holders(u)) <= 1)
    /\ [][\A t \in 1..Len(decisions) :
              AnsweredExpired(t) =>
                 /\ decisions'[t].reply = "expired"
                 /\ UNCHANGED <<user_messages, pending_approvals, executed>>]_vars

\* a second approve of the same session was answered as expired while the
\* first had invoked the tool and was waiting for the resumed run
C35_Witness ==
    \E t1, t2 \in 1..Len(decisions) :
        /\ t1 # t2
        /\ decisions[t1].user = "u1" /\ decisions[t2].user = "u1"
        /\ decisions[t1].data = "approve" /\ decisions[t2].data = "approve"
        /\ decisions[t1].pc = "resuming"
        /\ decisions[t2].reply = "expired"
        /\ Len(executed) = 1
        /\ "u1" \notin DOMAIN pending_approvals

----------------------------------------------------------------------------
(* Claims about /clear and pending approvals, checked under Spec *)

\* message m is a user turn that was received before this step
EarlierTurn(m) == m.role = "human" /\ m.content[2] <= nextId

\* C36: a turn that has left a session's conversation (only /clear removes
\* turns) never comes back: no step puts into a conversation a user turn
\* received earlier that is not in that conversation before the step; in
\* particular a decision on a pending approval stored before the clear does
\* not bring the pre-clear conversation back.
C36_ClearedTurnsStayCleared ==
    [][\A u \in DOMAIN user_messages' :
          \A i \in 1..Len(user_messages'[u]) :
             EarlierTurn(user_messages'[u][i]) =>
                /\ u \in DOMAIN user_messages
                /\ user_messages'[u][i] \in Range(user_messages[u])]_vars

----------------------------------------------------------------------------
(* Claims about the success mark of create_event, checked under SpecWorkflow *)

\* execute_create_event has run in this turn and returned
CreateRan ==
    /\ Len(wfTrace) >= 3 /\ wfTrace[3] = "execute_create_event"
    /\ ~(wfNode = "RAISED" /\ Len(wfTrace) = 3)

\* the registry forwarded create_event to a provider and the call returned
Forwarded ==
    \E i \in 1..Len(wfRun.calls) :
        /\ wfRun.calls[i].name = "create_event"
        /\ ~FailedCall(wfRun.calls[i])

\* C37: the event record is marked successful only when the registry
\* forwarded create_event to a provider and the call returned; when the
\* registry answers 'tool not found' or the call fails, the record is not
\* marked successful and the context of generate_response does not report
\* the event as created.
C37_SuccessOnlyWhenForwarded ==
    CreateRan =>
        /\ wfRun.events[1].success = "true" => Forwarded
        /\ (\E j \in 1..Len(wfRun.context) : wfRun.context[j].kind = "created")
              => Forwarded

----------------------------------------------------------------------------
(* Claims about a failing approve branch, checked under Spec *)

\* the step is user u's approve decision on u's pending approval and it is
\* answered with the error message: the tool invocation raised, or the
\* resumed run did
FailedApprove(u) ==
    /\ u \in DOMAIN pending_approvals
    /\ ev'.kind = "approval" /\ ev'.user = u
    /\ ev'.data = "approve" /\ ev'.reply = "error"

\* C38: when the approve branch fails, whether in the tool invocation or in
\* the response synthesis after a successful tool invocation, the pending
\* approval is no longer stored, the user gets the error message and the
\* session's conversation is as it was before the decision.
C38_FailedApproveLeavesConversation ==
    [][\A u \in Users :
          FailedApprove(u) =>
             /\ u \notin DOMAIN pending_approvals'
             /\ UNCHANGED user_messages]_vars

\* the part about the tool invocation alone
C38_ToolFailureLeavesConversation ==
    [][\A u \in Users :
          (FailedApprove(u) /\ ev'.calls[1].kind = "raised") =>
             /\ u \notin DOMAIN pending_approvals'
             /\ UNCHANGED user_messages]_vars

----------------------------------------------------------------------------
(* Claims about the teardown of started providers, checked under SpecRegistry *)

\* provider p's process or RPC session has been started and not exited
Running(p) == conn[p].client = "open" \/ conn[p].session \in {"open", "ready"}

\* disconnect_all has run to its end without an exception
DisconnectAllCompleted == regPc = "closed" /\ regRaised = "none"

\* C39: once disconnect_all has completed, no provider started by connect_all
\* is still running, including a provider whose connect failed after its
\* process or session was started and one whose tool listing failed.
C39_StartedProvidersTornDown ==
    DisconnectAllCompleted => \A p \in Providers : ~Running(p)

\* the part about providers whose tool listing failed
C39_ListFailureTornDown ==
    DisconnectAllCompleted =>
        \A p \in Providers : connOutcome[p] \in {"ok", "list_fails"} => ~Running(p)

----------------------------------------------------------------------------
(* Claims about unauthorized users, checked under Spec *)

\* the step is a handler run for a user outside the allowed set
UnauthorizedEvent ==
    /\ ev'.kind \in {"message", "clear", "approval"}
    /\ ev'.user \notin ALLOWED_USER_IDS

\* C40: a message, clear or decision event from a user outside the allowed
\* set changes no conversation and no pending approval of any session,
\* calls neither the language model nor a tool, and is answered 'denied';
\* with an empty allowed set nobody is authorized.
C40_UnauthorizedNoEffect ==
    /\ [](\A u \in Users : ~is_authorized_in({}, u))
    /\ [][UnauthorizedEvent =>
             /\ UNCHANGED <<user_messages, pending_approvals, cli_messages, lastCall>>
             /\ ev'.calls = <<>>
             /\ ev'.llm = 0
             /\ ev'.reply = "denied"]_vars

\* an outsider pressed Approve while u1's approval was pending, after also
\* u1's conversation had been stored: u1's record is still there
C40_Witness ==
    /\ ev.kind = "approval" /\ ev.user = "u3" /\ ev.data = "approve"
    /\ ev.reply = "denied"
    /\ "u1" \in DOMAIN pending_approvals
    /\ "u1" \in DOMAIN user_messages

====
